---- MODULE Spec2Model ----
(***************************************************************************)
(* Cache-prewarming scheduler of daily-hot-mcp                             *)
(* (src/daily-hot-mcp/daily_hot_mcp/scheduler): MetricsCollector,          *)
(* CacheWarmer, TaskScheduler and SchedulerManager.                        *)
(*                                                                         *)
(* Text is a sequence of tokens.  The token "warm_" stands for that        *)
(* five-character text; every other token is a text that shares no         *)
(* character with it, so that the occurrences of "warm_" in a text are     *)
(* exactly the occurrences of the token.                                   *)
(*                                                                         *)
(* Wall-clock values (WarmResult.timestamp, duration_seconds and the       *)
(* metric fields derived from them) are not part of the state: they are    *)
(* written next to the counters, under the same lock, and no property      *)
(* below reads them.                                                       *)
(***************************************************************************)
EXTENDS Integers, Sequences, FiniteSets, TLC

VARIABLES
    metrics,    \* MetricsCollector._metrics: source name -> record (a dict)
    lock,       \* MetricsCollector._lock: "free" or the thread that holds it
    pc,         \* per thread: position inside the MetricsCollector call it runs
    frame,      \* per thread: the locals of that call
    hist,       \* ghost: per source, the record_warm_result calls since its last reset
    serial,     \* ghost: the dict a serial execution of the calls yields
    probe,      \* a CacheWarmer call made directly: its inputs and what it gave
    isRunning,      \* SchedulerManager._is_running
    config,         \* SchedulerManager._config
    cacheWarmer,    \* SchedulerManager._cache_warmer
    taskScheduler,  \* SchedulerManager._task_scheduler: the engine and its jobs
    toolRegistry,   \* SchedulerManager._tool_registry
    now,            \* the clock, in minutes
    task,           \* per thread: the manager call or the job it runs
    last,           \* ghost: the manager call that returned last
    raised,         \* ghost: start, stop or reload_config has raised
    calls,          \* ghost: the manager calls made so far
    direct          \* a TaskScheduler or SchedulerConfig used directly: what it holds

collectorVars == <<metrics, lock, pc, frame, hist, serial>>

\* the state of the classes used on their own
directVars == <<probe, direct>>

----------------------------------------------------------------------------
(* Bounds and input sets                                                   *)

MaxSources == 2     \* sources a config file lists
MaxTime == 1        \* minutes the clock runs
MaxRuns == 3        \* results recorded (since a reset) by direct collector calls
MaxWarms == 2       \* warm executions made through the manager
MaxCalls == 3       \* manager calls made from the control thread

Threads == {"ctl", "w1", "w2"}                 \* control thread, pool workers
SourceNames == {<<"x">>, <<"warm_", "x">>}     \* "x" and "warm_x"

ItemCounts == {0, 2}                           \* values of items_cached

None == <<"<None>">>                           \* Python's None, where a text may stand

----------------------------------------------------------------------------
(* WarmResult (warmer.py) as far as the collector reads it                 *)

ToolNames == {"fetch", "missing", "other"}

\* SourceConfig (config.py); tool_params is handed to the capability as it
\* is and decides nothing here
SourceConfig(name, tool, enabled, interval) ==
    [name |-> name, tool_name |-> tool, enabled |-> enabled, interval_minutes |-> interval]

\* what the capability does when it is invoked: it returns a list of n
\* elements, returns a sized collection of n elements that is no list (a
\* tuple, a dict, a set), returns a single value, or raises an exception e
\* of which str(e) is msg
Outcomes ==
    {[kind |-> "list", n |-> k, msg |-> None] : k \in ItemCounts}
    \cup {[kind |-> "tuple", n |-> k, msg |-> None] : k \in ItemCounts}
    \cup {[kind |-> "value", n |-> 0, msg |-> None]}
    \cup {[kind |-> "raise", n |-> 0, msg |-> m] : m \in {<<"boom">>, <<>>}}

WarmResult(name, ok, msg, items) ==
    [source_name |-> name, success |-> ok, error_message |-> msg, items_cached |-> items]

NoResult == WarmResult(<<>>, FALSE, None, 0)

ResultInputs ==
    { WarmResult(n, ok, IF ok THEN None ELSE <<"boom">>, k) :
        n \in SourceNames, ok \in BOOLEAN, k \in ItemCounts }

----------------------------------------------------------------------------
(* CacheWarmer (warmer.py)                                                 *)

\* is the text `part` a piece of the text `whole`
Contains(whole, part) ==
    \E i \in 1..(Len(whole) - Len(part) + 1) :
        SubSeq(whole, i, i + Len(part) - 1) = part

\* _find_tool: self._tool_map.get(tool_name); tools is the set of names in
\* the tool map
FindTool_AnyTool(tools, tool_name) == TRUE
FindTool(tools, tool_name) == tool_name \in tools

\* a failed WarmResult: error_message is given, items_cached keeps its
\* default 0
FailedResult_NoMessage(name, msg) == WarmResult(name, FALSE, None, 0)
FailedResult(name, msg) == WarmResult(name, FALSE, msg, 0)

\* the `except Exception` clauses of warm_source and of warm_source_sync:
\* the outcomes of the capability that they catch
WarmCatches_Nothing(outcome) == FALSE
WarmCatches(outcome) == TRUE
SyncCatches(outcome) == TRUE

\* items_count = len(result) if isinstance(result, list) else 1
ItemsCount(outcome) == IF outcome.kind = "list" THEN outcome.n ELSE 1

\* warm_source: the WarmResult, the capabilities it invoked, and whether an
\* exception left it
WarmSource(source, tools, outcome) ==
    IF ~FindTool(tools, source.tool_name)
    THEN [result |-> FailedResult(source.name, <<"Tool not found: ", source.tool_name>>),
          invoked |-> {}, raised |-> FALSE]
    ELSE IF source.tool_name \notin tools
    THEN \* tool is None: tool.fn raises AttributeError, caught below
         [result |-> FailedResult(source.name,
                                  <<"'NoneType' object has no attribute 'fn'">>),
          invoked |-> {}, raised |-> FALSE]
    ELSE IF outcome.kind = "raise"
    THEN IF WarmCatches(outcome)
         THEN \* except Exception as e: error_msg = str(e)
              [result |-> FailedResult(source.name, outcome.msg),
               invoked |-> {source.tool_name}, raised |-> FALSE]
         ELSE [result |-> NoResult, invoked |-> {source.tool_name}, raised |-> TRUE]
    ELSE [result |-> WarmResult(source.name, TRUE, None, ItemsCount(outcome)),
          invoked |-> {source.tool_name}, raised |-> FALSE]

\* warm_source_sync: a fresh event loop runs warm_source to its end; a
\* failure to set the loop up, or an exception that leaves warm_source,
\* becomes a failed result "Sync wrapper error: ..."
WarmSourceSync(source, tools, outcome, loop_error) ==
    IF loop_error
    THEN [result |-> FailedResult(source.name, <<"Sync wrapper error: ", "loop">>),
          invoked |-> {}, raised |-> FALSE]
    ELSE LET w == WarmSource(source, tools, outcome) IN
         IF w.raised /\ SyncCatches(outcome)
         THEN [result |-> FailedResult(source.name,
                                       <<"Sync wrapper error: ">> \o outcome.msg),
               invoked |-> w.invoked, raised |-> FALSE]
         ELSE w

----------------------------------------------------------------------------
(* MetricsCollector (metrics.py)                                           *)

\* the defaultdict factory of __init__
DefaultRecord ==
    [total_runs |-> 0, successful_runs |-> 0, failed_runs |-> 0,
     total_items |-> 0, last_error |-> None, last_items |-> 0]

NoSnapshot == [present |-> FALSE, rec |-> DefaultRecord,
               success_rate |-> <<0, 1>>, average_items |-> <<0, 1>>]

\* the dict get_source_metrics returns: a copy plus the derived rates
\* (a rate is the pair <<numerator, denominator>>)
Snapshot(rec) ==
    [present |-> TRUE, rec |-> rec,
     success_rate |-> IF rec.total_runs > 0
                      THEN <<rec.successful_runs, rec.total_runs>> ELSE <<0, 1>>,
     average_items |-> IF rec.successful_runs > 0
                       THEN <<rec.total_items, rec.successful_runs>> ELSE <<0, 1>>]

NoSummary == [total_sources |-> 0, total_runs |-> 0, total_successful |-> 0,
              total_failed |-> 0, total_items_cached |-> 0,
              overall_success_rate |-> <<0, 1>>]

EmptyFrame ==
    [op |-> "none",          \* the call in progress
     ret |-> "gsm_ret",      \* where get_source_metrics returns to
     result |-> NoResult,    \* record_warm_result: its argument
     name |-> <<>>,          \* get_source_metrics / reset_metrics: its argument
     tmp |-> 0,              \* the value loaded by an augmented assignment
     ref |-> DefaultRecord,  \* the dict object the local `metrics` refers to
     snap |-> NoSnapshot,    \* the value get_source_metrics returned
     todo |-> {},            \* get_all_metrics: keys still to iterate
     pending |-> FALSE,      \* get_all_metrics: a snapshot waits to be added
     sources |-> {},         \* get_all_metrics: all_sources, as <<name, snapshot>> pairs
     summary |-> NoSummary]  \* get_all_metrics: the running totals, then the summary

Idle(t) == pc[t] = "idle"

\* threading.Lock is not reentrant: acquire succeeds only on a free lock,
\* whoever holds it
LockFree_NoExclusion(t) == TRUE
LockFree(t) == lock = "free"

Acquire(t, from, to) ==
    /\ pc[t] = from
    /\ LockFree(t)
    /\ lock' = t
    /\ pc' = [pc EXCEPT ![t] = to]

Release(t) == lock' = "free"

\* reading and writing a field through the local reference `metrics`
LoadField(t, n, f) == IF n \in DOMAIN metrics THEN metrics[n][f] ELSE frame[t].ref[f]

StoreField(t, n, f, v) ==
    /\ metrics' = IF n \in DOMAIN metrics
                  THEN [metrics EXCEPT ![n] = [@ EXCEPT ![f] = v]]
                  ELSE metrics
    /\ frame' = [frame EXCEPT ![t].ref = [@ EXCEPT ![f] = v]]

\* one whole record_warm_result, applied at once
RecordApply(rec, r) ==
    IF r.success
    THEN [rec EXCEPT !.total_runs = @ + 1, !.successful_runs = @ + 1,
                     !.total_items = @ + r.items_cached,
                     !.last_items = r.items_cached]
    ELSE [rec EXCEPT !.total_runs = @ + 1, !.failed_runs = @ + 1,
                     !.last_error = r.error_message]

DictGet(d, n) == IF n \in DOMAIN d THEN d[n] ELSE DefaultRecord
DictSet(d, n, v) == [k \in DOMAIN d \cup {n} |-> IF k = n THEN v ELSE d[k]]
DictDel(d, n) == [k \in DOMAIN d \ {n} |-> d[k]]
EmptyDict == [k \in {} |-> DefaultRecord]

\* ghost: what a sequence of calls for one source amounts to
NoCalls == [calls |-> 0, items |-> 0]
HistAdd(h, r) == [calls |-> h.calls + 1,
                  items |-> h.items + (IF r.success THEN r.items_cached ELSE 0)]

\* ---- record_warm_result(result) ----

\* `with self._lock:`; the call takes effect in the order of the acquisitions
RecLock(t) ==
    /\ Acquire(t, "rec_lock", "rec_get")
    /\ LET r == frame[t].result
           n == r.source_name IN
       /\ hist' = [hist EXCEPT ![n] = HistAdd(@, r)]
       /\ serial' = DictSet(serial, n, RecordApply(DictGet(serial, n), r))
    /\ UNCHANGED <<metrics, frame>>

\* metrics = self._metrics[result.source_name]: the defaultdict inserts a
\* fresh record for a missing key
RecGet(t) ==
    /\ pc[t] = "rec_get"
    /\ LET n == frame[t].result.source_name IN
       /\ metrics' = IF n \in DOMAIN metrics THEN metrics
                     ELSE DictSet(metrics, n, DefaultRecord)
       /\ frame' = [frame EXCEPT ![t].ref = DictGet(metrics, n)]
    /\ pc' = [pc EXCEPT ![t] = "rec_total_ld"]
    /\ UNCHANGED <<lock, hist, serial>>

\* metrics['total_runs'] += 1 is a load, an add and a store
RecLoad(t) ==
    /\ pc[t] \in {"rec_total_ld", "rec_succ_ld", "rec_items_ld", "rec_fail_ld"}
    /\ LET n == frame[t].result.source_name
           f == CASE pc[t] = "rec_total_ld" -> "total_runs"
                  [] pc[t] = "rec_succ_ld" -> "successful_runs"
                  [] pc[t] = "rec_items_ld" -> "total_items"
                  [] OTHER -> "failed_runs" IN
       frame' = [frame EXCEPT ![t].tmp = LoadField(t, n, f)]
    /\ pc' = [pc EXCEPT ![t] =
                CASE pc[t] = "rec_total_ld" -> "rec_total_st"
                  [] pc[t] = "rec_succ_ld" -> "rec_succ_st"
                  [] pc[t] = "rec_items_ld" -> "rec_items_st"
                  [] OTHER -> "rec_fail_st"]
    /\ UNCHANGED <<metrics, lock, hist, serial>>

RecStoreTotal(t) ==
    /\ pc[t] = "rec_total_st"
    /\ StoreField(t, frame[t].result.source_name, "total_runs", frame[t].tmp + 1)
    /\ pc' = [pc EXCEPT ![t] = IF frame[t].result.success
                               THEN "rec_succ_ld" ELSE "rec_fail_ld"]
    /\ UNCHANGED <<lock, hist, serial>>

RecStoreSuccess(t) ==
    /\ pc[t] = "rec_succ_st"
    /\ StoreField(t, frame[t].result.source_name, "successful_runs", frame[t].tmp + 1)
    /\ pc' = [pc EXCEPT ![t] = "rec_items_ld"]
    /\ UNCHANGED <<lock, hist, serial>>

\* a slip: `=` written for `+=`
RecStoreItems_Assign(t) ==
    /\ pc[t] = "rec_items_st"
    /\ LET r == frame[t].result
           n == r.source_name
           upd(rec) == [rec EXCEPT !.total_items = r.items_cached,
                                   !.last_items = r.items_cached] IN
       /\ metrics' = IF n \in DOMAIN metrics
                     THEN [metrics EXCEPT ![n] = upd(@)] ELSE metrics
       /\ frame' = [frame EXCEPT ![t].ref = upd(@)]
    /\ pc' = [pc EXCEPT ![t] = "rec_unlock"]
    /\ UNCHANGED <<lock, hist, serial>>

\* metrics['total_items'] += result.items_cached; metrics['last_items'] = ...
RecStoreItems(t) ==
    /\ pc[t] = "rec_items_st"
    /\ LET r == frame[t].result
           n == r.source_name
           upd(rec) == [rec EXCEPT !.total_items = frame[t].tmp + r.items_cached,
                                   !.last_items = r.items_cached] IN
       /\ metrics' = IF n \in DOMAIN metrics
                     THEN [metrics EXCEPT ![n] = upd(@)] ELSE metrics
       /\ frame' = [frame EXCEPT ![t].ref = upd(@)]
    /\ pc' = [pc EXCEPT ![t] = "rec_unlock"]
    /\ UNCHANGED <<lock, hist, serial>>

\* metrics['failed_runs'] += 1; metrics['last_error'] = result.error_message
RecStoreFailure(t) ==
    /\ pc[t] = "rec_fail_st"
    /\ LET r == frame[t].result
           n == r.source_name
           upd(rec) == [rec EXCEPT !.failed_runs = frame[t].tmp + 1,
                                   !.last_error = r.error_message] IN
       /\ metrics' = IF n \in DOMAIN metrics
                     THEN [metrics EXCEPT ![n] = upd(@)] ELSE metrics
       /\ frame' = [frame EXCEPT ![t].ref = upd(@)]
    /\ pc' = [pc EXCEPT ![t] = "rec_unlock"]
    /\ UNCHANGED <<lock, hist, serial>>

RecUnlock(t) ==
    /\ pc[t] = "rec_unlock"
    /\ Release(t)
    /\ pc' = [pc EXCEPT ![t] = "idle"]
    /\ frame' = [frame EXCEPT ![t] = EmptyFrame]
    /\ UNCHANGED <<metrics, hist, serial>>

\* ---- get_source_metrics(source_name) ----

GsmLock(t) ==
    /\ Acquire(t, "gsm_lock", "gsm_copy")
    /\ UNCHANGED <<metrics, frame, hist, serial>>

\* `if source_name not in self._metrics: return {}`, else the copy and the
\* derived rates; leaving the `with` block releases the lock
GsmCopy(t) ==
    /\ pc[t] = "gsm_copy"
    /\ LET n == frame[t].name IN
       frame' = [frame EXCEPT ![t].snap =
                    IF n \in DOMAIN metrics THEN Snapshot(metrics[n]) ELSE NoSnapshot]
    /\ Release(t)
    /\ pc' = [pc EXCEPT ![t] = frame[t].ret]
    /\ UNCHANGED <<metrics, hist, serial>>

\* the caller takes the returned value
Return(t) ==
    /\ pc[t] \in {"gsm_ret", "gam_ret"}
    /\ pc' = [pc EXCEPT ![t] = "idle"]
    /\ frame' = [frame EXCEPT ![t] = EmptyFrame]
    /\ UNCHANGED <<metrics, lock, hist, serial>>

\* ---- get_all_metrics() ----

GamLock(t) ==
    /\ Acquire(t, "gam_lock", "gam_loop")
    /\ frame' = [frame EXCEPT ![t].todo = DOMAIN metrics,
                              ![t].pending = FALSE,
                              ![t].sources = {},
                              ![t].summary = NoSummary]
    /\ UNCHANGED <<metrics, hist, serial>>

\* the totals after the snapshot of one more source has been added
AddToSummary(s, snap) ==
    [s EXCEPT !.total_runs = @ + (IF snap.present THEN snap.rec.total_runs ELSE 0),
              !.total_successful = @ + (IF snap.present THEN snap.rec.successful_runs ELSE 0),
              !.total_failed = @ + (IF snap.present THEN snap.rec.failed_runs ELSE 0),
              !.total_items_cached = @ + (IF snap.present THEN snap.rec.total_items ELSE 0)]

\* the summary block of the return value
FinishSummary(s) ==
    [s EXCEPT !.total_sources = Cardinality(DOMAIN metrics),
              !.overall_success_rate = IF s.total_runs > 0
                                       THEN <<s.total_successful, s.total_runs>>
                                       ELSE <<0, 1>>]

\* one turn of `for source_name in self._metrics`: the snapshot the previous
\* turn's call returned is added, then either the next key's
\* get_source_metrics is called (still inside `with self._lock`) or the
\* result is built and the lock released
GamLoop(t) ==
    /\ pc[t] = "gam_loop"
    /\ LET f == frame[t]
           summed == IF f.pending THEN AddToSummary(f.summary, f.snap) ELSE f.summary
           got == IF f.pending THEN f.sources \cup {<<f.name, f.snap>>} ELSE f.sources IN
       IF f.todo # {}
       THEN \E n \in f.todo :
               /\ frame' = [frame EXCEPT ![t].todo = f.todo \ {n},
                                         ![t].name = n,
                                         ![t].ret = "gam_loop",
                                         ![t].pending = TRUE,
                                         ![t].sources = got,
                                         ![t].summary = summed]
               /\ pc' = [pc EXCEPT ![t] = "gsm_lock"]
               /\ UNCHANGED lock
       ELSE /\ frame' = [frame EXCEPT ![t].pending = FALSE,
                                      ![t].sources = got,
                                      ![t].summary = FinishSummary(summed)]
            /\ Release(t)
            /\ pc' = [pc EXCEPT ![t] = "gam_ret"]
    /\ UNCHANGED <<metrics, hist, serial>>

\* ---- reset_metrics(source_name=None) ----

\* `if source_name:` is false for None and for the empty name: everything is
\* cleared
ResetsAll(name) == name \in {None, <<>>}

ResetLock(t) ==
    /\ Acquire(t, "reset_lock", "reset_do")
    /\ LET n == frame[t].name IN
       /\ hist' = IF ResetsAll(n) THEN [k \in SourceNames |-> NoCalls]
                  ELSE [hist EXCEPT ![n] = NoCalls]
       /\ serial' = IF ResetsAll(n) THEN EmptyDict ELSE DictDel(serial, n)
    /\ UNCHANGED <<metrics, frame>>

ResetDo(t) ==
    /\ pc[t] = "reset_do"
    /\ LET n == frame[t].name IN
       metrics' = IF ResetsAll(n) THEN EmptyDict ELSE DictDel(metrics, n)
    /\ Release(t)
    /\ pc' = [pc EXCEPT ![t] = "idle"]
    /\ frame' = [frame EXCEPT ![t] = EmptyFrame]
    /\ UNCHANGED <<hist, serial>>

\* a step of thread t inside the collector
CollectorStep(t) ==
    \/ RecLock(t) \/ RecGet(t) \/ RecLoad(t) \/ RecStoreTotal(t)
    \/ RecStoreSuccess(t) \/ RecStoreItems(t) \/ RecStoreFailure(t) \/ RecUnlock(t)
    \/ GsmLock(t) \/ GsmCopy(t) \/ Return(t)
    \/ GamLock(t) \/ GamLoop(t)
    \/ ResetLock(t) \/ ResetDo(t)

\* entering a collector call
Enter(t, op, start, r, n) ==
    /\ pc' = [pc EXCEPT ![t] = start]
    /\ frame' = [frame EXCEPT ![t] =
                    [EmptyFrame EXCEPT !.op = op, !.result = r, !.name = n]]

CollectorInit ==
    /\ metrics = EmptyDict
    /\ lock = "free"
    /\ pc = [t \in Threads |-> "idle"]
    /\ frame = [t \in Threads |-> EmptyFrame]
    /\ hist = [n \in SourceNames |-> NoCalls]
    /\ serial = EmptyDict

\* nothing is used directly
NoDirect == [kind |-> "none"]

NoProbe == [source |-> SourceConfig(<<>>, "fetch", TRUE, 1), tools |-> {},
            outcome |-> [kind |-> "value", n |-> 0, msg |-> None],
            done |-> FALSE, raised |-> FALSE, via |-> "none", loop_error |-> FALSE,
            result |-> NoResult, invoked |-> {}]

\* the sum of f over the set S of source names
RECURSIVE SumOver(_, _)
SumOver(S, f) ==
    IF S = {} THEN 0
    ELSE LET n == CHOOSE k \in S : TRUE IN f[n] + SumOver(S \ {n}, f)

\* record_warm_result calls made since the last reset, those waiting for the
\* lock included
Recorded ==
    SumOver(SourceNames, [n \in SourceNames |-> hist[n].calls])
    + Cardinality({t \in Threads : pc[t] = "rec_lock"})

----------------------------------------------------------------------------
(* SchedulerConfig (config.py)                                             *)

\* the entries a config file may list: "x" every 2 minutes, "warm_x" every
\* minute, "warm_x" disabled
SourceInputs ==
    {SourceConfig(<<"x">>, "fetch", TRUE, 2),
     SourceConfig(<<"warm_", "x">>, "fetch", TRUE, 1),
     SourceConfig(<<"warm_", "x">>, "fetch", FALSE, 1)}

RECURSIVE SeqsUpTo(_, _)
SeqsUpTo(S, k) ==
    IF k = 0 THEN {<<>>}
    ELSE LET shorter == SeqsUpTo(S, k - 1) IN
         shorter \cup {Append(q, e) : q \in {r \in shorter : Len(r) = k - 1}, e \in S}

\* what load() finds where the manager's config_path points: no file, a
\* file that is no JSON, or a file with a list of sources (of distinct names)
ConfigFiles ==
    {[kind |-> k, sources |-> <<>>] : k \in {"missing", "invalid"}}
    \cup {[kind |-> "ok", sources |-> q] :
             q \in {r \in SeqsUpTo(SourceInputs, MaxSources) :
                      \A i, k \in DOMAIN r : r[i].name = r[k].name => i = k}}

\* load(): FileNotFoundError for a missing explicit path, JSONDecodeError
\* re-raised by _load_from_file, else the list of sources
Load(file) ==
    CASE file.kind = "missing" -> [raised |-> "FileNotFoundError", sources |-> <<>>]
      [] file.kind = "invalid" -> [raised |-> "JSONDecodeError", sources |-> <<>>]
      [] OTHER -> [raised |-> "no", sources |-> file.sources]

\* get_enabled_sources()
GetEnabledSources(sources) == SelectSeq(sources, LAMBDA src : src.enabled)

----------------------------------------------------------------------------
(* TaskScheduler (scheduler.py) over APScheduler's BackgroundScheduler     *)

WarmPrefix == <<"warm_">>

\* job_id = f"warm_{source_config.name}"
JobId(name) == WarmPrefix \o name

\* str.replace(old, new): every occurrence, left to right, without overlap
RECURSIVE Replace(_, _, _)
Replace(text, old, new) ==
    IF Len(text) < Len(old) THEN text
    ELSE IF SubSeq(text, 1, Len(old)) = old
    THEN new \o Replace(SubSeq(text, Len(old) + 1, Len(text)), old, new)
    ELSE <<Head(text)>> \o Replace(Tail(text), old, new)

\* job_defaults of __init__
MaxInstances == 1

NoSource == SourceConfig(<<>>, "fetch", FALSE, 1)

NoJobs == [j \in {} |-> [source |-> NoSource, start_date |-> 0,
                         next_run_time |-> 0, pending |-> TRUE]]

\* IntervalTrigger: the fire times are start_date + k * interval; the first
\* one at or after t, and the first one after t
FirstFire(start_date, interval, t) ==
    IF start_date >= t THEN start_date
    ELSE start_date + ((t - start_date + interval - 1) \div interval) * interval

NextFireAfter(start_date, interval, t) ==
    IF start_date > t THEN start_date
    ELSE start_date + ((t - start_date) \div interval + 1) * interval

\* add_job: an existing job of that id is removed, then the job is added
\* with a new IntervalTrigger, whose start date is one interval from now;
\* a scheduler that is not running keeps the job pending, without a next
\* run time, until it is started
AddJob(jobs, source, t, running) ==
    LET id == JobId(source.name)
        job == [source |-> source,
                start_date |-> t + source.interval_minutes,
                next_run_time |-> t + source.interval_minutes,
                pending |-> ~running] IN
    [j \in DOMAIN jobs \cup {id} |-> IF j = id THEN job ELSE jobs[j]]

RECURSIVE AddJobs(_, _, _, _)
AddJobs(jobs, sources, t, running) ==
    IF sources = <<>> THEN jobs
    ELSE AddJobs(AddJob(jobs, Head(sources), t, running), Tail(sources), t, running)

\* remove_job(source_name): the scheduler raises JobLookupError for an id
\* it does not hold; remove_job logs that and returns
RemoveJob(jobs, source_name) ==
    LET id == JobId(source_name) IN
    IF id \in DOMAIN jobs THEN [j \in DOMAIN jobs \ {id} |-> jobs[j]] ELSE jobs

\* get_jobs(): id and next run time of every job; reading next_run_time of
\* a pending job raises AttributeError
GetJobs(jobs) ==
    IF \E j \in DOMAIN jobs : jobs[j].pending
    THEN [raised |-> "AttributeError", jobs |-> {}]
    ELSE [raised |-> "no",
          jobs |-> {[id |-> j, next_run_time |-> jobs[j].next_run_time] : j \in DOMAIN jobs}]

\* BaseScheduler.start: the pending jobs get their first run time
StartJobs(jobs, t) ==
    [j \in DOMAIN jobs |->
        IF jobs[j].pending
        THEN [jobs[j] EXCEPT !.pending = FALSE,
                             !.next_run_time =
                                 FirstFire(jobs[j].start_date,
                                           jobs[j].source.interval_minutes, t)]
        ELSE jobs[j]]

----------------------------------------------------------------------------
(* SchedulerManager (manager.py)                                           *)

\* the `except Exception` clauses of _initialize_components, start, stop and
\* reload_config: the exceptions each of them catches
InitializeCatches(exc) == TRUE
StartCatches(exc) == TRUE
StopCatches(exc) == TRUE
ReloadCatches_OnlyLoadErrors(exc) == exc \in {"FileNotFoundError", "JSONDecodeError"}
ReloadCatches(exc) == TRUE

NoTask == [kind |-> "none",       \* "start", "stop", "get_status" or "job"
           stage |-> "none",      \* where in it the thread is
           source |-> NoSource,   \* the source being warmed
           queue |-> <<>>,        \* start: the enabled sources still to warm
           job |-> <<>>,          \* job: the id of the job
           orphan |-> FALSE,      \* job: its scheduler has been replaced
           at |-> 0,              \* get_status: the time of the call
           running |-> FALSE,     \* get_status: status['running']
           jobs |-> {}]           \* get_status: status['jobs']

\* ghost: the manager call that returned last, the running flag when it was
\* made, and whether an exception ended its work
NoCall == [op |-> "none", was_running |-> FALSE, failed |-> FALSE]

Returned(op, was_running, failed) ==
    [op |-> op, was_running |-> was_running, failed |-> failed]

NoScheduler == [set |-> FALSE, state |-> "new", jobs |-> NoJobs]
\* wrapped: the warm_with_metrics wrappers around the warmer's warm_source_sync
NoWarmer == [set |-> FALSE, tools |-> {}, wrapped |-> 0]

\* the warmer of the previous start kept, and wrapped once more
NewWarmer_Kept(old, tools) == [set |-> TRUE, tools |-> tools, wrapped |-> old.wrapped + 1]

\* self._cache_warmer = CacheWarmer(tool_registry), a new warmer at every
\* start, and self._cache_warmer.warm_source_sync = warm_with_metrics
NewWarmer(old, tools) == [set |-> TRUE, tools |-> tools, wrapped |-> 1]

\* one record_warm_result(result) for each warm_with_metrics around the call
RECURSIVE RecordTimes(_, _, _)
RecordTimes(rec, r, wrapped) ==
    IF wrapped = 0 THEN rec ELSE RecordTimes(RecordApply(rec, r), r, wrapped - 1)
NoConfig == [set |-> FALSE, sources |-> <<>>]

\* the tool registry handed to the constructor: None, an empty list, or tools
RegistryInputs ==
    {[injected |-> FALSE, tools |-> {}],
     [injected |-> TRUE, tools |-> {}],
     [injected |-> TRUE, tools |-> {"fetch", "other"}]}

\* _load_tool_registry: the injected registry, else the imported all_tools,
\* else [] when the import fails
LoadToolRegistry(reg) ==
    IF reg.injected THEN {reg.tools} ELSE {{}, {"fetch", "other"}}

managerVars ==
    <<isRunning, config, cacheWarmer, taskScheduler, toolRegistry, now, task, last, raised,
      calls>>

Workers == {"w1", "w2"}

CtlIdle == task["ctl"].kind = "none" /\ pc["ctl"] = "idle"

\* the control thread makes its next manager call
Call == CtlIdle /\ calls < MaxCalls /\ calls' = calls + 1

\* the instances of job j that run in the pool of the current scheduler
Instances(j) ==
    {w \in Workers : task[w].kind = "job" /\ task[w].job = j /\ ~task[w].orphan}

\* warm executions begun or promised: the model follows MaxWarms of them
WarmsCommitted ==
    Recorded + Cardinality({t \in Threads : task[t].stage = "warming"})
    + Len(task["ctl"].queue)

\* `if self._is_running` of start, `if not self._is_running` of stop and
\* reload_config
AlreadyRunning_Never == FALSE
AlreadyRunning == isRunning
NotRunning == ~isRunning

\* ---- start() ----

\* an exception leaves _initialize_components, or start
StartFails(exc) ==
    /\ isRunning' = FALSE
    /\ last' = Returned("start", FALSE, TRUE)
    /\ raised' = (raised \/ (~InitializeCatches(exc) /\ ~StartCatches(exc)))

\* the step of _initialize_components that follows the registration of the
\* jobs: self._task_scheduler.start(), before any initial warm
AfterJobs_WarmPass == "warm_pass"
AfterJobs == "engine_start"

\* `for source in enabled_sources:` of the initial warm pass: the sources it
\* is to warm, one after the other, each inside its own try
InitialWarms_FirstOnly(enabled) == IF enabled = <<>> THEN <<>> ELSE <<Head(enabled)>>
InitialWarms(enabled) == enabled

\* start() up to the point where the engine is to be started: the config is
\* loaded, the registry resolved, warmer and scheduler are built and a job
\* is added per enabled source (add_job number fail_at raises, if any)
StartCall ==
    /\ Call
    /\ IF AlreadyRunning
       THEN /\ last' = Returned("start", TRUE, FALSE)
            /\ UNCHANGED raised
            /\ UNCHANGED <<isRunning, config, cacheWarmer, taskScheduler, task>>
       ELSE \E file \in ConfigFiles, tools \in LoadToolRegistry(toolRegistry),
               fail_at \in 0..MaxSources :
            LET ld == Load(file)
                enabled == GetEnabledSources(ld.sources)
                added == IF fail_at = 0 THEN enabled ELSE SubSeq(enabled, 1, fail_at - 1) IN
            /\ fail_at <= Len(enabled)
            /\ config' = [set |-> TRUE, sources |-> ld.sources]
            /\ IF ld.raised # "no"
               THEN /\ StartFails(ld.raised)
                    /\ UNCHANGED <<cacheWarmer, taskScheduler, task>>
               ELSE IF ld.sources = <<>> \/ tools = {}
               THEN /\ last' = Returned("start", FALSE, FALSE)
                    /\ UNCHANGED raised
                    /\ UNCHANGED <<isRunning, cacheWarmer, taskScheduler, task>>
               ELSE /\ WarmsCommitted + Len(enabled) <= MaxWarms
                    /\ cacheWarmer' = NewWarmer(cacheWarmer, tools)
                    /\ taskScheduler' = [set |-> TRUE, state |-> "new",
                                         jobs |-> AddJobs(NoJobs, added, now, FALSE)]
                    /\ IF fail_at # 0
                       THEN /\ StartFails("EngineError")
                            /\ task' = [t \in Threads |->
                                          IF task[t].kind = "job"
                                          THEN [task[t] EXCEPT !.orphan = TRUE]
                                          ELSE task[t]]
                       ELSE /\ task' = [t \in Threads |->
                                          IF t = "ctl"
                                          THEN [NoTask EXCEPT !.kind = "start",
                                                              !.stage = AfterJobs,
                                                              !.queue = InitialWarms(enabled)]
                                          ELSE IF task[t].kind = "job"
                                          THEN [task[t] EXCEPT !.orphan = TRUE]
                                          ELSE task[t]]
                            /\ UNCHANGED <<isRunning, last, raised>>
    /\ UNCHANGED <<toolRegistry, now, collectorVars, directVars>>

\* self._task_scheduler.start(): the engine starts, or raises; when it
\* raises it is left stopped, or marked running without a thread to run it
StartEngine ==
    /\ task["ctl"].kind = "start" /\ task["ctl"].stage = "engine_start"
    /\ \/ /\ taskScheduler' = [taskScheduler EXCEPT
                                  !.state = "running",
                                  !.jobs = StartJobs(taskScheduler.jobs, now)]
          /\ task' = [task EXCEPT !["ctl"].stage = "warm_pass"]
          /\ UNCHANGED <<isRunning, last, raised>>
       \/ /\ \/ UNCHANGED taskScheduler
             \/ taskScheduler' = [taskScheduler EXCEPT
                                     !.state = "dead",
                                     !.jobs = StartJobs(taskScheduler.jobs, now)]
          /\ StartFails("EngineError")
          /\ task' = [task EXCEPT !["ctl"] = NoTask]
    /\ UNCHANGED <<config, cacheWarmer, toolRegistry, now, calls, collectorVars, directVars>>

\* the initial warm pass: the next enabled source is warmed
StartWarm ==
    /\ task["ctl"].kind = "start" /\ task["ctl"].stage = "warm_pass"
    /\ task["ctl"].queue # <<>>
    /\ task' = [task EXCEPT !["ctl"].stage = "warming",
                            !["ctl"].source = Head(task["ctl"].queue),
                            !["ctl"].queue = Tail(task["ctl"].queue)]
    /\ UNCHANGED <<isRunning, config, cacheWarmer, taskScheduler, toolRegistry, now,
                   last, raised, calls, collectorVars, directVars>>

\* start(), once _initialize_components() has returned True:
\* `self._is_running = True`
IsRunningAfterInit_Unset == FALSE

IsRunningAfterInit == TRUE

\* _initialize_components returns True: self._is_running = True
StartFinish ==
    /\ task["ctl"].kind = "start" /\ task["ctl"].stage = "warm_pass"
    /\ task["ctl"].queue = <<>>
    /\ isRunning' = IsRunningAfterInit
    /\ task' = [task EXCEPT !["ctl"] = NoTask]
    /\ last' = Returned("start", FALSE, FALSE)
    /\ UNCHANGED raised
    /\ UNCHANGED <<config, cacheWarmer, taskScheduler, toolRegistry, now, calls,
                   collectorVars, directVars>>

\* ---- warm_with_metrics(source), on the control thread or in a job ----

\* what the capability of a scheduled source does
JobOutcomes ==
    {o \in Outcomes : (o.kind = "list" /\ o.n > 0) \/ (o.kind = "raise" /\ o.msg # <<>>)}

\* original_warm(source_config) returns its result and
\* self._metrics_collector.record_warm_result(result) records it, from the
\* lock's acquisition to its release: the lock makes the call one step for
\* every other thread (MetricsSpec follows it field by field).  Then the
\* warm pass goes on, or the job ends.
WarmDone(t) ==
    /\ task[t].stage = "warming"
    /\ LockFree(t)
    /\ \E o \in JobOutcomes :
          LET r == WarmSourceSync(task[t].source, cacheWarmer.tools, o, FALSE).result
              n == r.source_name IN
          /\ metrics' = DictSet(metrics, n,
                                 RecordTimes(DictGet(metrics, n), r, cacheWarmer.wrapped))
          /\ serial' = DictSet(serial, n, RecordApply(DictGet(serial, n), r))
          /\ hist' = [hist EXCEPT ![n] = HistAdd(@, r)]
    /\ task' = [task EXCEPT ![t] = IF task[t].kind = "start"
                                   THEN [task[t] EXCEPT !.stage = "warm_pass"]
                                   ELSE NoTask]
    /\ UNCHANGED <<isRunning, config, cacheWarmer, taskScheduler, toolRegistry, now,
                   last, raised, calls, lock, pc, frame, directVars>>

\* ---- stop() ----

StopFails(exc) ==
    /\ last' = Returned("stop", TRUE, TRUE)
    /\ raised' = (raised \/ ~StopCatches(exc))

\* stop() up to the wait for the jobs in flight.  TaskScheduler.shutdown
\* only warns when the scheduler is not running.  BaseScheduler.shutdown
\* marks the scheduler stopped before anything in it can fail.
StopCall ==
    /\ Call
    /\ IF NotRunning
       THEN /\ last' = Returned("stop", FALSE, FALSE)
            /\ UNCHANGED raised
            /\ UNCHANGED <<isRunning, taskScheduler, task>>
       ELSE IF ~taskScheduler.set \/ taskScheduler.state \notin {"running", "dead"}
       THEN /\ isRunning' = FALSE
            /\ last' = Returned("stop", TRUE, FALSE)
            /\ UNCHANGED raised
            /\ UNCHANGED <<taskScheduler, task>>
       ELSE /\ taskScheduler' = [taskScheduler EXCEPT !.state = "stopped"]
            /\ \/ /\ task' = [task EXCEPT !["ctl"] =
                                 [NoTask EXCEPT !.kind = "stop", !.stage = "wait"]]
                  /\ UNCHANGED <<isRunning, last, raised>>
               \/ /\ StopFails("EngineError")
                  /\ UNCHANGED <<isRunning, task>>
    /\ UNCHANGED <<config, cacheWarmer, toolRegistry, now, collectorVars, directVars>>

\* shutdown(wait=True) has waited for the jobs in flight: the job store is
\* emptied and self._is_running = False, unless the shutdown raises
StopFinish ==
    /\ task["ctl"].kind = "stop" /\ task["ctl"].stage = "wait"
    /\ \A w \in Workers : task[w].kind = "job" => task[w].orphan
    /\ task' = [task EXCEPT !["ctl"] = NoTask]
    /\ \/ /\ taskScheduler' = [taskScheduler EXCEPT !.jobs = NoJobs]
          /\ isRunning' = FALSE
          /\ last' = Returned("stop", TRUE, FALSE)
          /\ UNCHANGED raised
       \/ /\ \/ UNCHANGED taskScheduler
             \/ taskScheduler' = [taskScheduler EXCEPT !.jobs = NoJobs]
          /\ StopFails("EngineError")
          /\ UNCHANGED isRunning
    /\ UNCHANGED <<config, cacheWarmer, toolRegistry, now, calls, collectorVars, directVars>>

\* ---- reload_config() ----

\* `for job_id in current_jobs: if job_id not in new_job_ids:` the source
\* name is job_id.replace("warm_", "") and remove_job(source_name) is called
RECURSIVE RemoveStale(_, _)
RemoveStale(jobs, stale) ==
    IF stale = {} THEN jobs
    ELSE LET job_id == CHOOSE j \in stale : TRUE
             source_name == Replace(job_id, WarmPrefix, <<>>) IN
         RemoveStale(RemoveJob(jobs, source_name), stale \ {job_id})

ReloadFails(exc) ==
    /\ last' = Returned("reload_config", TRUE, TRUE)
    /\ raised' = (raised \/ ~ReloadCatches(exc))

ReloadCall ==
    /\ Call
    /\ IF NotRunning
       THEN /\ last' = Returned("reload_config", FALSE, FALSE)
            /\ UNCHANGED raised
            /\ UNCHANGED <<config, taskScheduler>>
       ELSE \E file \in ConfigFiles, fail_at \in 0..MaxSources :
            LET ld == Load(file)
                got == GetJobs(taskScheduler.jobs)
                current_jobs == {job.id : job \in got.jobs}
                new_enabled == GetEnabledSources(ld.sources)
                new_job_ids == {JobId(new_enabled[i].name) : i \in DOMAIN new_enabled}
                kept == RemoveStale(taskScheduler.jobs, current_jobs \ new_job_ids)
                added == IF fail_at = 0 THEN new_enabled
                         ELSE SubSeq(new_enabled, 1, fail_at - 1) IN
            /\ fail_at <= Len(new_enabled)
            /\ IF ld.raised # "no"
               THEN /\ ReloadFails(ld.raised)
                    /\ UNCHANGED <<config, taskScheduler>>
               ELSE IF ~taskScheduler.set
               THEN /\ last' = Returned("reload_config", TRUE, FALSE)
                    /\ UNCHANGED raised
                    /\ UNCHANGED <<config, taskScheduler>>
               ELSE IF got.raised # "no"
               THEN /\ ReloadFails(got.raised)
                    /\ UNCHANGED <<config, taskScheduler>>
               ELSE /\ taskScheduler' =
                           [taskScheduler EXCEPT !.jobs =
                               AddJobs(kept, added, now, taskScheduler.state = "running")]
                    /\ IF fail_at # 0
                       THEN /\ ReloadFails("EngineError")
                            /\ UNCHANGED config
                       ELSE /\ config' = [set |-> TRUE, sources |-> ld.sources]
                            /\ last' = Returned("reload_config", TRUE, FALSE)
                            /\ UNCHANGED raised
    /\ UNCHANGED <<isRunning, cacheWarmer, toolRegistry, now, task, collectorVars, directVars>>

\* ---- get_status() ----

\* status['running'] and status['jobs'] are filled in, then
\* get_all_metrics() is called; nothing in get_status catches an exception
StatusCall ==
    /\ Call
    /\ LET got == IF taskScheduler.set /\ isRunning
                  THEN GetJobs(taskScheduler.jobs)
                  ELSE [raised |-> "no", jobs |-> {}] IN
       IF got.raised # "no"
       THEN /\ last' = Returned("get_status", isRunning, TRUE)
            /\ UNCHANGED raised
            /\ UNCHANGED <<task, pc, frame>>
       ELSE /\ task' = [task EXCEPT !["ctl"] =
                           [NoTask EXCEPT !.kind = "get_status", !.stage = "metrics",
                                          !.at = now,
                                          !.running = isRunning, !.jobs = got.jobs]]
            /\ Enter("ctl", "get_all_metrics", "gam_lock", NoResult, <<>>)
            /\ UNCHANGED <<last, raised>>
    /\ UNCHANGED <<isRunning, config, cacheWarmer, taskScheduler, toolRegistry, now,
                   metrics, lock, hist, serial, directVars>>

\* get_all_metrics() has returned: get_status returns the status
StatusReturn ==
    /\ task["ctl"].kind = "get_status" /\ pc["ctl"] = "gam_ret"
    /\ pc' = [pc EXCEPT !["ctl"] = "idle"]
    /\ frame' = [frame EXCEPT !["ctl"] = EmptyFrame]
    /\ task' = [task EXCEPT !["ctl"] = NoTask]
    /\ last' = Returned("get_status", task["ctl"].running, FALSE)
    /\ UNCHANGED <<raised, calls>>
    /\ UNCHANGED <<isRunning, config, cacheWarmer, taskScheduler, toolRegistry, now,
                   metrics, lock, hist, serial, directVars>>

\* ---- the periodic engine ----

Due(j) ==
    /\ taskScheduler.state = "running"
    /\ j \in DOMAIN taskScheduler.jobs
    /\ ~taskScheduler.jobs[j].pending
    /\ taskScheduler.jobs[j].next_run_time <= now

\* a minute passes; the engine's thread wakes up at the next run time, so
\* no run time is left behind (and none comes near misfire_grace_time)
Tick ==
    /\ now < MaxTime
    /\ \A j \in DOMAIN taskScheduler.jobs : ~Due(j)
    /\ now' = now + 1
    /\ UNCHANGED <<isRunning, config, cacheWarmer, taskScheduler, toolRegistry, task,
                   last, raised, calls, collectorVars, directVars>>

\* _process_jobs for a due job: its run times up to now coalesce into one
\* run, which is submitted to the pool unless max_instances instances of
\* the job are running; the job's next run time moves past now
Fire(j) ==
    /\ Due(j)
    /\ LET job == taskScheduler.jobs[j]
           free == {w \in Workers : task[w].kind = "none" /\ pc[w] = "idle"} IN
       /\ taskScheduler' = [taskScheduler EXCEPT !.jobs[j].next_run_time =
                               NextFireAfter(job.start_date,
                                             job.source.interval_minutes, now)]
       /\ IF Cardinality(Instances(j)) >= MaxInstances
          THEN UNCHANGED task
          ELSE /\ free # {}
               /\ WarmsCommitted < MaxWarms
               /\ LET w == IF "w1" \in free THEN "w1" ELSE "w2" IN
                  task' = [task EXCEPT ![w] =
                              [NoTask EXCEPT !.kind = "job", !.stage = "warming",
                                             !.source = job.source, !.job = j]]
    /\ UNCHANGED <<isRunning, config, cacheWarmer, toolRegistry, now, last, raised, calls,
                   collectorVars, directVars>>

\* a step of thread t inside the MetricsCollector call it is in
CollectorRuns(t) ==
    /\ pc[t] \notin {"idle", "gam_ret"}     \* the return is StatusReturn
    /\ CollectorStep(t)
    /\ UNCHANGED <<managerVars, directVars>>

----------------------------------------------------------------------------
(* The manager, driven from one control thread, with its engine            *)

Init ==
    /\ CollectorInit
    /\ probe = NoProbe
    /\ direct = NoDirect
    /\ isRunning = FALSE
    /\ config = NoConfig
    /\ cacheWarmer = NoWarmer
    /\ taskScheduler = NoScheduler
    /\ toolRegistry \in RegistryInputs
    /\ now = 0
    /\ task = [t \in Threads |-> NoTask]
    /\ last = NoCall
    /\ raised = FALSE
    /\ calls = 0

Next ==
    \/ StartCall \/ StartEngine \/ StartWarm \/ StartFinish
    \/ StopCall \/ StopFinish
    \/ ReloadCall
    \/ StatusCall \/ StatusReturn
    \/ Tick
    \/ \E j \in {JobId(n) : n \in SourceNames} : Fire(j)
    \/ \E t \in Threads : WarmDone(t)
    \/ CollectorRuns("ctl")

vars == <<metrics, lock, pc, frame, hist, serial, probe, direct,
          isRunning, config, cacheWarmer, taskScheduler, toolRegistry, now, task, last,
          raised, calls>>

Spec == Init /\ [][Next]_vars

ManagerIdle ==
    /\ isRunning = FALSE
    /\ config = NoConfig
    /\ cacheWarmer = NoWarmer
    /\ taskScheduler = NoScheduler
    /\ toolRegistry = [injected |-> TRUE, tools |-> {"fetch", "other"}]
    /\ now = 0
    /\ task = [t \in Threads |-> NoTask]
    /\ last = NoCall
    /\ raised = FALSE
    /\ calls = 0

----------------------------------------------------------------------------
(* The collector used directly by several threads                          *)

CallRecord(t) ==
    /\ Idle(t)
    /\ \E r \in ResultInputs :
          /\ Recorded < MaxRuns
          /\ Enter(t, "record_warm_result", "rec_lock", r, <<>>)
    /\ UNCHANGED <<metrics, lock, hist, serial>>

CallGetSource(t) ==
    /\ Idle(t)
    /\ \E n \in SourceNames : Enter(t, "get_source_metrics", "gsm_lock", NoResult, n)
    /\ UNCHANGED <<metrics, lock, hist, serial>>

CallGetAll(t) ==
    /\ Idle(t)
    /\ Enter(t, "get_all_metrics", "gam_lock", NoResult, <<>>)
    /\ UNCHANGED <<metrics, lock, hist, serial>>

CallReset(t) ==
    /\ Idle(t)
    /\ \E n \in SourceNames \cup {None, <<>>} :
          Enter(t, "reset_metrics", "reset_lock", NoResult, n)
    /\ UNCHANGED <<metrics, lock, hist, serial>>

MetricsThreads == {"w1", "w2"}

\* the manager is not in use
Alone == UNCHANGED <<directVars, managerVars>>

MetricsNext ==
    \E t \in MetricsThreads :
        \/ CallRecord(t) /\ Alone
        \/ CallGetSource(t) /\ Alone
        \/ CallGetAll(t) /\ Alone
        \/ CallReset(t) /\ Alone
        \/ RecLock(t) /\ Alone
        \/ RecGet(t) /\ Alone
        \/ RecLoad(t) /\ Alone
        \/ RecStoreTotal(t) /\ Alone
        \/ RecStoreSuccess(t) /\ Alone
        \/ RecStoreItems(t) /\ Alone
        \/ RecStoreFailure(t) /\ Alone
        \/ RecUnlock(t) /\ Alone
        \/ GsmLock(t) /\ Alone
        \/ GsmCopy(t) /\ Alone
        \/ Return(t) /\ Alone
        \/ GamLock(t) /\ Alone
        \/ GamLoop(t) /\ Alone
        \/ ResetLock(t) /\ Alone
        \/ ResetDo(t) /\ Alone

----------------------------------------------------------------------------
(* CacheWarmer.warm_source called directly                                 *)

ProbeInputs ==
    { [NoProbe EXCEPT !.source = SourceConfig(n, tn, TRUE, 1),
                      !.tools = reg, !.outcome = o] :
        n \in SourceNames, tn \in ToolNames,
        reg \in SUBSET (ToolNames \ {"missing"}), o \in Outcomes }

WarmInit ==
    /\ CollectorInit
    /\ ManagerIdle
    /\ probe \in ProbeInputs
    /\ direct = NoDirect

\* await warmer.warm_source(source): every exception is caught inside
CallWarmSource ==
    /\ ~probe.done
    /\ LET w == WarmSource(probe.source, probe.tools, probe.outcome) IN
       probe' = [probe EXCEPT !.done = TRUE, !.raised = w.raised, !.via = "warm_source",
                              !.result = w.result, !.invoked = w.invoked]
    /\ UNCHANGED <<collectorVars, managerVars, direct>>

\* warmer.warm_source_sync(source): asyncio.new_event_loop() may fail
CallWarmSourceSync ==
    /\ ~probe.done
    /\ \E loop_error \in BOOLEAN :
          LET w == WarmSourceSync(probe.source, probe.tools, probe.outcome, loop_error) IN
          probe' = [probe EXCEPT !.done = TRUE, !.raised = w.raised,
                                 !.via = "warm_source_sync", !.loop_error = loop_error,
                                 !.result = w.result, !.invoked = w.invoked]
    /\ UNCHANGED <<collectorVars, managerVars, direct>>

WarmNext == CallWarmSource \/ CallWarmSourceSync

WarmSpec == WarmInit /\ [][WarmNext]_vars

MetricsInit == CollectorInit /\ ManagerIdle /\ probe = NoProbe /\ direct = NoDirect

MetricsSpec == MetricsInit /\ [][MetricsNext]_vars

----------------------------------------------------------------------------
(* TaskScheduler.add_job and start called directly.  Here the jobs of the  *)
(* BackgroundScheduler are the list it keeps (its pending jobs before the  *)
(* start, its job store after), not yet a function of the job id.          *)

MaxAdds == 3        \* add_job calls made

\* the sources handed to add_job
AddInputs ==
    {SourceConfig(n, "fetch", TRUE, iv) : n \in SourceNames, iv \in {1, 2}}

\* scheduler.get_job(job_id): is there an entry of that id
StoreLookup_Never(list, id) == FALSE
StoreLookup(list, id) == \E i \in DOMAIN list : list[i].id = id

\* scheduler.remove_job(job_id): the first entry of that id goes
RECURSIVE StoreRemove(_, _)
StoreRemove(list, id) ==
    IF list = <<>> THEN <<>>
    ELSE IF Head(list).id = id THEN Tail(list)
    ELSE <<Head(list)>> \o StoreRemove(Tail(list), id)

\* _real_add_job(job, replace_existing=True): an entry of the same id is
\* updated where it stands, a new one is appended
RealAddJob(list, entry) ==
    IF \E i \in DOMAIN list : list[i].id = entry.id
    THEN [i \in DOMAIN list |-> IF list[i].id = entry.id THEN entry ELSE list[i]]
    ELSE Append(list, entry)

\* scheduler.add_job(...): a scheduler that is not running appends to its
\* pending jobs without a look at them
StoreAdd(list, entry, running) ==
    IF running THEN RealAddJob(list, entry) ELSE Append(list, entry)

\* TaskScheduler.add_job on the list
ListAddJob(list, source, t, running) ==
    LET id == JobId(source.name)
        kept == IF StoreLookup(list, id) THEN StoreRemove(list, id) ELSE list
        job == [source |-> source,
                start_date |-> t + source.interval_minutes,
                next_run_time |-> t + source.interval_minutes,
                pending |-> ~running] IN
    StoreAdd(kept, [id |-> id, job |-> job], running)

\* BaseScheduler.start: the pending jobs are added for real, one by one, and
\* get their first run time
RECURSIVE ListStart(_, _, _)
ListStart(done, pending, t) ==
    IF pending = <<>> THEN done
    ELSE LET e == Head(pending)
             started == [e EXCEPT !.job.pending = FALSE,
                                  !.job.next_run_time =
                                      FirstFire(e.job.start_date,
                                                e.job.source.interval_minutes, t)] IN
         ListStart(RealAddJob(done, started), Tail(pending), t)

\* the jobs of a list by id (of several entries of one id, the first)
ById(list) ==
    [j \in {list[i].id : i \in DOMAIN list} |->
        list[CHOOSE i \in DOMAIN list :
                /\ list[i].id = j
                /\ \A k \in DOMAIN list : list[k].id = j => i <= k].job]

NoAdded == [n \in SourceNames |-> NoSource]

JobsInit ==
    /\ CollectorInit
    /\ ManagerIdle
    /\ probe = NoProbe
    /\ direct = [kind |-> "jobs", running |-> FALSE, list |-> <<>>, jobs |-> NoJobs,
                 added |-> NoAdded, adds |-> 0]

\* add_job(source_config); `jobs` follows the call on the jobs by id, and
\* `added` keeps the source of the latest call per name
DirectAddJob ==
    /\ direct.adds < MaxAdds
    /\ \E source \in AddInputs :
          direct' = [direct EXCEPT
                        !.list = ListAddJob(direct.list, source, now, direct.running),
                        !.jobs = AddJob(direct.jobs, source, now, direct.running),
                        !.added[source.name] = source,
                        !.adds = @ + 1]
    /\ UNCHANGED <<collectorVars, managerVars, probe>>

\* start()
DirectStart ==
    /\ ~direct.running
    /\ direct' = [direct EXCEPT !.running = TRUE,
                                !.list = ListStart(<<>>, direct.list, now),
                                !.jobs = StartJobs(direct.jobs, now)]
    /\ UNCHANGED <<collectorVars, managerVars, probe>>

\* remove_job(source_name) for a source that was added
DirectRemoveJob ==
    /\ \E n \in SourceNames :
          /\ direct.added[n] # NoSource
          /\ direct' = [direct EXCEPT
                           !.list = IF StoreLookup(direct.list, JobId(n))
                                    THEN StoreRemove(direct.list, JobId(n))
                                    ELSE direct.list,
                           !.jobs = RemoveJob(direct.jobs, n),
                           !.added[n] = NoSource]
    /\ UNCHANGED <<collectorVars, managerVars, probe>>

\* a minute passes before the engine is started
DirectTick ==
    /\ direct.kind = "jobs" /\ ~direct.running
    /\ now < MaxTime
    /\ now' = now + 1
    /\ UNCHANGED <<isRunning, config, cacheWarmer, taskScheduler, toolRegistry, task, last,
                   raised, calls, collectorVars, directVars>>

JobsNext == DirectAddJob \/ DirectStart \/ DirectRemoveJob \/ DirectTick

JobsSpec == JobsInit /\ [][JobsNext]_vars

----------------------------------------------------------------------------
(* SchedulerConfig.load called directly, on a config file as it is written *)
(* (entries not yet validated) and on a file system in which some of the   *)
(* paths it looks at exist.                                                *)

DEFAULT_INTERVAL_MINUTES == 25

\* DEFAULT_CONFIG_LOCATIONS, in list order
DEFAULT_CONFIG_LOCATIONS ==
    <<"scheduler_config.json", "daily_hot_mcp/scheduler_config.json",
      "~/.config/daily-hot-mcp/scheduler_config.json">>

\* JSON values an interval may be: the integer k, the number k + 0.5, a text
JsonInt(k) == [type |-> "int", whole |-> k]
JsonHalf(k) == [type |-> "float", whole |-> k]
JsonText == [type |-> "str", whole |-> 0]

\* an element of "sources": a JSON object with the keys `keys` (a value is
\* read only when its key is there), or a value that is no object
JsonEntry(keys, name, tool, interval, enabled) ==
    [object |-> TRUE, keys |-> keys, name |-> name, tool_name |-> tool,
     interval_minutes |-> interval, enabled |-> enabled]

NotAnObject == [JsonEntry({}, <<>>, "", JsonInt(0), TRUE) EXCEPT !.object = FALSE]

AllKeys == {"name", "tool_name", "enabled", "interval_minutes"}

EntryInputs ==
    {JsonEntry({"name", "tool_name"}, <<"x">>, "fetch", JsonInt(0), TRUE),
     JsonEntry(AllKeys, <<"warm_", "x">>, "fetch", JsonInt(2), FALSE),
     JsonEntry({"tool_name"}, <<>>, "fetch", JsonInt(0), TRUE),
     JsonEntry({"name"}, <<"x">>, "", JsonInt(0), TRUE),
     JsonEntry(AllKeys, <<>>, "fetch", JsonInt(2), TRUE),
     JsonEntry(AllKeys, <<"x">>, "", JsonInt(2), TRUE),
     JsonEntry(AllKeys, <<"x">>, "fetch", JsonInt(0), TRUE),
     JsonEntry(AllKeys, <<"x">>, "fetch", JsonText, TRUE),
     JsonEntry(AllKeys, <<"x">>, "fetch", JsonHalf(2), TRUE),
     NotAnObject}

\* a file: no JSON, or a JSON object with "sources" and, when has_default,
\* with "default_interval_minutes"
JsonFiles ==
    {[kind |-> "invalid", has_default |-> FALSE, default_interval_minutes |-> JsonInt(0),
      sources |-> <<>>]}
    \cup {[kind |-> "json", has_default |-> d, default_interval_minutes |-> JsonInt(3),
           sources |-> q] : d \in BOOLEAN, q \in SeqsUpTo(EntryInputs, MaxSources)}

\* config_data.get("default_interval_minutes", DEFAULT_INTERVAL_MINUTES)
DefaultInterval(file) ==
    IF file.has_default THEN file.default_interval_minutes
    ELSE JsonInt(DEFAULT_INTERVAL_MINUTES)

\* source_data.get("interval_minutes", self._default_interval)
IntervalOf(entry, default_interval) ==
    IF "interval_minutes" \in entry.keys THEN entry.interval_minutes ELSE default_interval

\* source_data.get("enabled", True)
EnabledOf(entry) == IF "enabled" \in entry.keys THEN entry.enabled ELSE TRUE

\* the exception that SourceConfig(name=source_data["name"], ...) ends in,
\* "no" when the object is built: the subscripts first (TypeError on a value
\* that is no object, KeyError on a missing key), then __post_init__
\* (ValueError; TypeError when a text is compared with 1)
BuildRaises(entry, default_interval) ==
    LET interval == IntervalOf(entry, default_interval) IN
    CASE ~entry.object -> "TypeError"
      [] "name" \notin entry.keys -> "KeyError"
      [] "tool_name" \notin entry.keys -> "KeyError"
      [] entry.name = <<>> -> "ValueError"
      [] entry.tool_name = "" -> "ValueError"
      [] interval.type = "str" -> "TypeError"
      [] interval.whole < 1 -> "ValueError"
      [] OTHER -> "no"

\* the SourceConfig built from an entry
Built(entry, default_interval) ==
    SourceConfig(entry.name, entry.tool_name, EnabledOf(entry),
                 IntervalOf(entry, default_interval))

\* except (KeyError, ValueError) around one entry
EntryCatches(exc) == exc \in {"KeyError", "ValueError"}

\* the loop of _load_from_file over sources_data
RECURSIVE LoadEntries(_, _, _)
LoadEntries(loaded, entries, default_interval) ==
    IF entries = <<>> THEN [raised |-> "no", sources |-> loaded]
    ELSE LET exc == BuildRaises(Head(entries), default_interval) IN
         IF exc = "no"
         THEN LoadEntries(Append(loaded, Built(Head(entries), default_interval)),
                          Tail(entries), default_interval)
         ELSE IF EntryCatches(exc)
         THEN LoadEntries(loaded, Tail(entries), default_interval)
         ELSE [raised |-> exc, sources |-> loaded]

\* _load_from_file: json.load, then the loop; every exception is re-raised
LoadFromFile(file) ==
    IF file.kind = "invalid" THEN [raised |-> "JSONDecodeError", sources |-> <<>>]
    ELSE LoadEntries(<<>>, file.sources, DefaultInterval(file))

\* for location in DEFAULT_CONFIG_LOCATIONS: the first one that exists,
\* None ("") when none does
FirstDefault(exists) ==
    IF \E i \in DOMAIN DEFAULT_CONFIG_LOCATIONS : DEFAULT_CONFIG_LOCATIONS[i] \in exists
    THEN DEFAULT_CONFIG_LOCATIONS[
             CHOOSE i \in DOMAIN DEFAULT_CONFIG_LOCATIONS :
                /\ DEFAULT_CONFIG_LOCATIONS[i] \in exists
                /\ \A k \in 1..(i - 1) : DEFAULT_CONFIG_LOCATIONS[k] \notin exists]
    ELSE ""

\* _find_config_file: the path of the environment variable when it is set
\* and exists (a warning when it is set and does not), else the default
\* locations
FindConfigFile_EnvUnchecked(env_path, exists) ==
    IF env_path # "" THEN env_path ELSE FirstDefault(exists)
FindConfigFile(env_path, exists) ==
    IF env_path # "" /\ env_path \in exists THEN env_path ELSE FirstDefault(exists)

\* load() of SchedulerConfig(config_path), "" for no path: what it raises,
\* the sources it returns and the file it read ("" for none)
LoadResolved(config_path, env_path, exists, file) ==
    IF config_path # "" /\ config_path \notin exists
    THEN [raised |-> "FileNotFoundError", sources |-> <<>>, config_file |-> ""]
    ELSE LET config_file == IF config_path # "" THEN config_path
                            ELSE FindConfigFile(env_path, exists) IN
         IF config_file # ""
         THEN [raised |-> LoadFromFile(file).raised, sources |-> LoadFromFile(file).sources,
               config_file |-> config_file]
         ELSE [raised |-> "no", sources |-> <<>>, config_file |-> ""]

Paths == {"given.json", "env.json"} \cup {DEFAULT_CONFIG_LOCATIONS[i] : i \in 1..3}

NoLoad == [raised |-> "no", sources |-> <<>>, config_file |-> ""]

\* a SchedulerConfig before load(): its config_path, the environment
\* variable, the paths that exist and what a file that exists holds
ConfigInit ==
    /\ CollectorInit
    /\ ManagerIdle
    /\ probe = NoProbe
    /\ \E cp \in {"", "given.json"}, ep \in {"", "env.json"},
          ex \in SUBSET Paths, f \in JsonFiles :
          direct = [kind |-> "config", config_path |-> cp, env_path |-> ep,
                    exists |-> ex, file |-> f, done |-> FALSE, result |-> NoLoad]

\* load()
CallLoad ==
    /\ direct.kind = "config" /\ ~direct.done
    /\ direct' = [direct EXCEPT
                     !.done = TRUE,
                     !.result = LoadResolved(direct.config_path, direct.env_path,
                                             direct.exists, direct.file)]
    /\ UNCHANGED <<collectorVars, managerVars, probe>>

ConfigNext == CallLoad

ConfigSpec == ConfigInit /\ [][ConfigNext]_vars

----------------------------------------------------------------------------
(* The engine of a started TaskScheduler on its own: its thread may wake   *)
(* up late, so that run times of a job pile up, and an instance of a job   *)
(* may still run when the job is due again.                                *)

MaxClock == 3       \* minutes the engine's clock runs

\* job_defaults of __init__ ('misfire_grace_time': 300 seconds, in minutes)
Coalesce_Off == FALSE
Coalesce == TRUE
MisfireGraceTime == 5

\* the jobs of the engine: add_job for "x" (every minute) and for "warm_x"
\* (every 2 minutes) at time 0, on a scheduler that runs
EngineJobs ==
    AddJobs(NoJobs, <<SourceConfig(<<"x">>, "fetch", TRUE, 1),
                      SourceConfig(<<"warm_", "x">>, "fetch", TRUE, 2)>>, 0, TRUE)

\* job._get_run_times(now): the fire times from next_run_time up to t
RECURSIVE GetRunTimes(_, _, _)
GetRunTimes(next, interval, t) ==
    IF next > t THEN <<>> ELSE <<next>> \o GetRunTimes(next + interval, interval, t)

\* run_times[-1:] if run_times and job.coalesce else run_times
Coalesced(run_times) ==
    IF run_times # <<>> /\ Coalesce THEN <<run_times[Len(run_times)]>> ELSE run_times

EngineInit ==
    /\ CollectorInit
    /\ ManagerIdle
    /\ probe = NoProbe
    /\ direct = [kind |-> "engine", jobs |-> EngineJobs,
                 inst |-> [j \in DOMAIN EngineJobs |-> <<>>],
                 runs |-> [j \in DOMAIN EngineJobs |-> 0],
                 wakes |-> [j \in DOMAIN EngineJobs |-> 0],
                 missed |-> [j \in DOMAIN EngineJobs |-> 0],
                 piled |-> FALSE, overlapped |-> FALSE]

\* a minute passes, whether or not the engine's thread has woken up
EngineTick ==
    /\ direct.kind = "engine"
    /\ now < MaxClock
    /\ now' = now + 1
    /\ UNCHANGED <<isRunning, config, cacheWarmer, taskScheduler, toolRegistry, task, last,
                   raised, calls, collectorVars, directVars>>

\* _process_jobs for a due job j: its run times up to now, coalesced, are
\* handed to the pool as one instance, unless max_instances instances of
\* the job are there (MaxInstancesReachedError, logged); the next run time
\* moves past now.  Ghosts: wakes counts these steps, piled and overlapped
\* tell that several run times were due, that an instance was still there
EngineProcess(j) ==
    /\ direct.kind = "engine"
    /\ direct.jobs[j].next_run_time <= now
    /\ LET job == direct.jobs[j]
           run_times == GetRunTimes(job.next_run_time, job.source.interval_minutes, now)
           full == Len(direct.inst[j]) >= MaxInstances IN
       direct' = [direct EXCEPT
                     !.jobs[j].next_run_time =
                         NextFireAfter(job.start_date, job.source.interval_minutes, now),
                     !.inst[j] = IF full THEN @
                                 ELSE Append(@, [run_times |-> Coalesced(run_times),
                                                 busy |-> FALSE]),
                     !.wakes[j] = @ + 1,
                     !.piled = @ \/ Len(run_times) > 1,
                     !.overlapped = @ \/ full]
    /\ UNCHANGED <<collectorVars, managerVars, probe>>

\* run_job in a pool thread: the instance takes its next run time and calls
\* the job's function, unless the run time is older than misfire_grace_time
InstanceRun(j) ==
    /\ direct.kind = "engine"
    /\ \E i \in DOMAIN direct.inst[j] :
          LET instance == direct.inst[j][i] IN
          /\ ~instance.busy /\ instance.run_times # <<>>
          /\ IF now - Head(instance.run_times) > MisfireGraceTime
             THEN direct' = [direct EXCEPT
                                !.inst[j][i].run_times = Tail(@),
                                !.missed[j] = @ + 1]
             ELSE direct' = [direct EXCEPT
                                !.inst[j][i].run_times = Tail(@),
                                !.inst[j][i].busy = TRUE,
                                !.runs[j] = @ + 1]
    /\ UNCHANGED <<collectorVars, managerVars, probe>>

\* the job's function returns; an instance with no run time left is over
InstanceReturn(j) ==
    /\ direct.kind = "engine"
    /\ \E i \in DOMAIN direct.inst[j] :
          /\ direct.inst[j][i].busy \/ direct.inst[j][i].run_times = <<>>
          /\ direct' = [direct EXCEPT
                           !.inst[j] =
                               IF direct.inst[j][i].run_times = <<>>
                               THEN SubSeq(@, 1, i - 1) \o SubSeq(@, i + 1, Len(@))
                               ELSE [@ EXCEPT ![i].busy = FALSE]]
    /\ UNCHANGED <<collectorVars, managerVars, probe>>

EngineNext ==
    \/ EngineTick
    \/ \E j \in DOMAIN EngineJobs : EngineProcess(j)
    \/ \E j \in DOMAIN EngineJobs : InstanceRun(j)
    \/ \E j \in DOMAIN EngineJobs : InstanceReturn(j)

EngineSpec == EngineInit /\ [][EngineNext]_vars

----------------------------------------------------------------------------
(* CacheWarmer.warm_source_sync and its event loops                        *)

MaxSyncCalls == 2   \* warm_source_sync calls one thread makes, one after another

\* the threads that call warm_source_sync: pool threads of the engine, each
\* reused for one job execution after another
SyncThreads == {"w1", "w2"}

\* what loop.run_until_complete(self.warm_source(source_config)) does
RunOutcomes == {"returns", "raises"}

NoLoop == 0

\* an event loop, with the call that created it (ghost) and the number of
\* run_until_complete calls made on it (ghost)
EventLoop(t, call) == [thread |-> t, call |-> call, closed |-> FALSE, runs |-> 0]

\* asyncio.get_event_loop(): the loop set for the thread, a new one if none
NewEventLoop_OfThread(loops, current) ==
    IF current # NoLoop THEN current ELSE Len(loops) + 1

\* asyncio.new_event_loop(): a loop that no one has used yet
NewEventLoop(loops, current) == Len(loops) + 1

\* `finally: loop.close()`, whatever run_until_complete did
CloseLoop(loops, i, outcome) == [loops EXCEPT ![i].closed = TRUE]

LoopInit ==
    /\ CollectorInit
    /\ ManagerIdle
    /\ probe = NoProbe
    /\ direct = [kind |-> "loops",
                 loops |-> <<>>,                               \* the loops created
                 current |-> [t \in SyncThreads |-> NoLoop],   \* set_event_loop, per thread
                 at |-> [t \in SyncThreads |-> "idle"],
                 loop |-> [t \in SyncThreads |-> NoLoop],      \* the local `loop`
                 outcome |-> [t \in SyncThreads |-> "none"],
                 calls |-> [t \in SyncThreads |-> 0],          \* ghost: calls made
                 returned |-> [t \in SyncThreads |-> "none"]]  \* what the last call gave

\* thread t calls warm_source_sync(source_config)
SyncCall(t) ==
    /\ direct.kind = "loops"
    /\ direct.at[t] = "idle"
    /\ direct.calls[t] < MaxSyncCalls
    /\ direct' = [direct EXCEPT !.at[t] = "new_event_loop", !.calls[t] = @ + 1,
                                !.loop[t] = NoLoop, !.outcome[t] = "none",
                                !.returned[t] = "none"]
    /\ UNCHANGED <<collectorVars, managerVars, probe>>

\* loop = asyncio.new_event_loop(), which may raise (no selector, no file
\* descriptor left): the outer except takes over and there is no loop
SyncNewLoop(t) ==
    /\ direct.kind = "loops"
    /\ direct.at[t] = "new_event_loop"
    /\ \/ LET i == NewEventLoop(direct.loops, direct.current[t]) IN
          direct' = [direct EXCEPT
                        !.loops = IF i > Len(@)
                                  THEN Append(@, EventLoop(t, direct.calls[t]))
                                  ELSE @,
                        !.loop[t] = i,
                        !.at[t] = "set_event_loop"]
       \/ direct' = [direct EXCEPT !.at[t] = "except"]
    /\ UNCHANGED <<collectorVars, managerVars, probe>>

\* asyncio.set_event_loop(loop): the loop becomes the current one of this
\* thread only
SyncSetLoop(t) ==
    /\ direct.kind = "loops"
    /\ direct.at[t] = "set_event_loop"
    /\ direct' = [direct EXCEPT !.current[t] = direct.loop[t],
                                !.at[t] = "run_until_complete"]
    /\ UNCHANGED <<collectorVars, managerVars, probe>>

\* loop.run_until_complete(...) starts; on a closed loop it raises at once
SyncRun(t) ==
    /\ direct.kind = "loops"
    /\ direct.at[t] = "run_until_complete"
    /\ LET i == direct.loop[t] IN
       IF direct.loops[i].closed
       THEN direct' = [direct EXCEPT !.outcome[t] = "raises", !.at[t] = "finally"]
       ELSE direct' = [direct EXCEPT !.loops[i].runs = @ + 1, !.at[t] = "running"]
    /\ UNCHANGED <<collectorVars, managerVars, probe>>

\* the coroutine is over: run_until_complete returns its result or raises
SyncRunEnds(t) ==
    /\ direct.kind = "loops"
    /\ direct.at[t] = "running"
    /\ \E o \in RunOutcomes :
          direct' = [direct EXCEPT !.outcome[t] = o, !.at[t] = "finally"]
    /\ UNCHANGED <<collectorVars, managerVars, probe>>

\* finally: loop.close(), then `return result` or the outer except
SyncClose(t) ==
    /\ direct.kind = "loops"
    /\ direct.at[t] = "finally"
    /\ direct' = [direct EXCEPT
                     !.loops = CloseLoop(@, direct.loop[t], direct.outcome[t]),
                     !.at[t] = IF direct.outcome[t] = "returns" THEN "return" ELSE "except"]
    /\ UNCHANGED <<collectorVars, managerVars, probe>>

\* `return result`, or the except clause's failed WarmResult
SyncReturn(t) ==
    /\ direct.kind = "loops"
    /\ direct.at[t] \in {"return", "except"}
    /\ direct' = [direct EXCEPT
                     !.returned[t] = IF direct.at[t] = "return" THEN "result"
                                     ELSE "sync_wrapper_error",
                     !.at[t] = "idle"]
    /\ UNCHANGED <<collectorVars, managerVars, probe>>

LoopNext ==
    \/ \E t \in SyncThreads : SyncCall(t)
    \/ \E t \in SyncThreads : SyncNewLoop(t)
    \/ \E t \in SyncThreads : SyncSetLoop(t)
    \/ \E t \in SyncThreads : SyncRun(t)
    \/ \E t \in SyncThreads : SyncRunEnds(t)
    \/ \E t \in SyncThreads : SyncClose(t)
    \/ \E t \in SyncThreads : SyncReturn(t)

LoopSpec == LoopInit /\ [][LoopNext]_vars

----------------------------------------------------------------------------
(* Properties of the MetricsCollector                                      *)

LockPcs == {"rec_lock", "gsm_lock", "gam_lock", "reset_lock"}

\* positions between the acquisition and the release of the lock in
\* record_warm_result and reset_metrics
WritePcs == {"rec_get", "rec_total_ld", "rec_total_st", "rec_succ_ld", "rec_succ_st",
             "rec_items_ld", "rec_items_st", "rec_fail_ld", "rec_fail_st",
             "rec_unlock", "reset_do"}

\* no call that writes source n has taken effect and not yet finished
Settled(n) ==
    \A t \in Threads :
        pc[t] \in WritePcs =>
            /\ frame[t].op = "record_warm_result" => frame[t].result.source_name # n
            /\ frame[t].op = "reset_metrics" => frame[t].name \notin {n, None, <<>>}

\* C2: a get_all_metrics call always completes and leaves the lock free, so
\* that no later collector call blocks for ever: no thread ever waits for the
\* lock while it is the thread holding it (a wait nothing can end).
C2_GetAllMetricsCompletes ==
    \A t \in Threads : pc[t] \in LockPcs => lock # t

\* C5: after N record_warm_result calls for a source since its last reset,
\* total_runs = N, successful_runs + failed_runs = N and total_items is the
\* sum of items_cached over the successful results only.
C5_CountersMatchCalls ==
    \A n \in SourceNames :
        (Settled(n) /\ hist[n].calls >= 1) =>
            /\ n \in DOMAIN metrics
            /\ metrics[n].total_runs = hist[n].calls
            /\ metrics[n].successful_runs + metrics[n].failed_runs = hist[n].calls
            /\ metrics[n].total_items = hist[n].items

\* C5 witness: a source with three recorded results, two successes with
\* items and a failure among them.
C5_Witness ==
    \E n \in SourceNames :
        /\ Settled(n) /\ hist[n].calls >= 3 /\ n \in DOMAIN metrics
        /\ metrics[n].successful_runs >= 2 /\ metrics[n].failed_runs >= 1
        /\ metrics[n].total_items >= 4

\* C6: whatever the interleaving of record_warm_result, get_source_metrics
\* and reset_metrics calls of several threads, no update is lost (once the
\* writers have finished, the dict is the one the calls yield when run one
\* after the other) and every snapshot a reader holds has
\* total_runs = successful_runs + failed_runs.
C6_NoLostUpdate ==
    /\ (\A t \in Threads : pc[t] \notin WritePcs) => metrics = serial
    /\ \A t \in Threads :
          frame[t].snap.present =>
              frame[t].snap.rec.total_runs =
                  frame[t].snap.rec.successful_runs + frame[t].snap.rec.failed_runs

\* C6 witness: a thread is between the load and the store of total_runs
\* while another thread's record_warm_result for the same source waits for
\* the lock.
C6_Witness ==
    \E t, u \in Threads :
        /\ t # u
        /\ pc[t] = "rec_total_st" /\ pc[u] = "rec_lock"
        /\ frame[t].result.source_name = frame[u].result.source_name

----------------------------------------------------------------------------
(* Properties of the CacheWarmer                                           *)

\* C10: warm_source on a config whose tool_name is absent from the registry
\* returns success = false, items_cached = 0 and a non-empty error_message
\* that contains the missing tool name; it does not raise and invokes no
\* capability.
C10_MissingToolFails ==
    (probe.done /\ ~probe.loop_error /\ probe.source.tool_name \notin probe.tools) =>
        /\ ~probe.raised
        /\ ~probe.result.success
        /\ probe.result.items_cached = 0
        /\ probe.result.error_message # None
        /\ probe.result.error_message # <<>>
        /\ Contains(probe.result.error_message, <<probe.source.tool_name>>)
        /\ probe.invoked = {}

\* C10 witness: warm_source has returned for a tool name that a non-empty
\* registry does not hold.
C10_Witness ==
    /\ probe.done
    /\ probe.tools # {}
    /\ probe.source.tool_name \notin probe.tools
    /\ ~probe.result.success

----------------------------------------------------------------------------
(* Properties of the SchedulerManager                                      *)

\* the job ids the enabled sources of a config stand for
EnabledJobIds(sources) ==
    {JobId(GetEnabledSources(sources)[i].name) : i \in DOMAIN GetEnabledSources(sources)}

\* the control thread is back from the manager call op, made while the
\* running flag was was_running
Back(op, was_running) ==
    CtlIdle /\ last.op = op /\ last.was_running = was_running

\* C1: after reload_config() has returned on a running manager, the new
\* config loaded and nothing failed, the scheduled job ids are exactly
\* "warm_" + name for the sources enabled in the new config; no job is left
\* for a disabled or removed source, whatever its name.
C1_ReloadLeavesNoStaleJob ==
    (Back("reload_config", TRUE) /\ ~last.failed /\ taskScheduler.set) =>
        DOMAIN taskScheduler.jobs = EnabledJobIds(config.sources)

\* C3: a get_status() call that follows a successful start() with k >= 1
\* enabled sources goes on to return (it never waits for a lock that its
\* own thread holds), and the status it returns has running = true and k
\* jobs, "warm_" + name for each enabled source, each with a next run time
\* later than the moment of the call.
C3_StatusAfterStart ==
    LET st == task["ctl"] IN
    (/\ st.kind = "get_status"
     /\ last.op = "start" /\ ~last.was_running /\ isRunning
     /\ GetEnabledSources(config.sources) # <<>>) =>
        /\ ~(pc["ctl"] \in LockPcs /\ lock = "ctl")
        /\ pc["ctl"] = "gam_ret" =>
              /\ st.running
              /\ {e.id : e \in st.jobs} = EnabledJobIds(config.sources)
              /\ Cardinality(st.jobs) = Len(GetEnabledSources(config.sources))
              /\ \A e \in st.jobs : e.next_run_time > st.at

\* C4: a start() whose loaded config has no enabled source (no source at
\* all, or disabled ones only) leaves the manager stopped and the periodic
\* engine not started.
C4_NoEnabledSourceStaysStopped ==
    (Back("start", FALSE) /\ config.set /\ GetEnabledSources(config.sources) = <<>>) =>
        /\ ~isRunning
        /\ taskScheduler.state # "running"

\* C7: no exception ever leaves start(), stop() or reload_config(), whatever
\* fails in the config file, the tool registry or the engine.
C7_ManagerNeverRaises == ~raised

\* C7 witness: reload_config() has returned on a running manager after an
\* exception ended its work.
C7_Witness ==
    Back("reload_config", TRUE) /\ last.failed /\ ~raised

\* C8: every stop() made on a running manager ends with the manager stopped
\* and the periodic engine shut down, on every return path.
C8_StopAlwaysStops ==
    Back("stop", TRUE) =>
        /\ ~isRunning
        /\ taskScheduler.state # "running"

\* C9: start() on a running manager, and stop() or reload_config() on a
\* stopped one, leave the running flag, the config, the warmer, the
\* scheduler with its jobs and the metrics as they are, and begin no warm.
C9_NoOpCallsChangeNothing ==
    [][((isRunning /\ StartCall) \/ (~isRunning /\ StopCall) \/ (~isRunning /\ ReloadCall))
          => UNCHANGED <<isRunning, config, cacheWarmer, taskScheduler, metrics, task>>]_vars

\* C9 witness: start() has returned on a manager that was running, with
\* jobs scheduled and results recorded.
C9_Witness ==
    /\ Back("start", TRUE) /\ isRunning
    /\ DOMAIN taskScheduler.jobs # {}
    /\ metrics # EmptyDict

----------------------------------------------------------------------------
(* Properties of warm_source and warm_source_sync                          *)

\* C11: when the invoked capability raises an exception, warm_source and
\* warm_source_sync return a WarmResult with success = false whose
\* error_message is the exception's message str(e); no exception reaches the
\* caller.
C11_RaisedBecomesFailedResult ==
    (probe.done /\ probe.invoked # {} /\ probe.outcome.kind = "raise") =>
        /\ ~probe.raised
        /\ ~probe.result.success
        /\ probe.result.error_message = probe.outcome.msg
        /\ probe.result.source_name = probe.source.name

\* C11 witness: warm_source_sync has returned after its capability raised
\* an exception with the message "boom".
C11_Witness ==
    /\ probe.done /\ probe.via = "warm_source_sync"
    /\ probe.invoked = {probe.source.tool_name}
    /\ probe.outcome.kind = "raise" /\ probe.outcome.msg = <<"boom">>
    /\ probe.result.error_message = <<"boom">>

----------------------------------------------------------------------------
(* Properties of the TaskScheduler                                         *)

\* the names add_job has been called for
AddedNames == {n \in SourceNames : direct.added[n] # NoSource}

\* C12: after any sequence of add_job calls, before or after the start of
\* the engine, the scheduler holds exactly one job per distinct source name
\* added, of id "warm_" + name, and the job carries the source configuration
\* (interval included) of the latest add_job call for that name.
C12_AddJobReplaces ==
    /\ Len(direct.list) = Cardinality(AddedNames)
    /\ \A n \in AddedNames :
          /\ Cardinality({i \in DOMAIN direct.list : direct.list[i].id = JobId(n)}) = 1
          /\ \A i \in DOMAIN direct.list :
                direct.list[i].id = JobId(n) => direct.list[i].job.source = direct.added[n]
    /\ ById(direct.list) = direct.jobs

\* C12 witness: three add_job calls or more, two of them for one name with
\* different intervals, the later one after the start of the engine.
C12_Witness ==
    /\ direct.adds >= 3 /\ direct.running
    /\ Cardinality(AddedNames) = 2
    /\ \E i \in DOMAIN direct.list :
          /\ direct.list[i].job.source.interval_minutes = 2
          /\ ~direct.list[i].job.pending
          /\ direct.list[i].job.start_date = 2
          /\ direct.list[i].job.next_run_time = 2

----------------------------------------------------------------------------
(* Properties of SchedulerConfig.load                                      *)

\* an entry as the contract wants it: an object with a name and a tool_name
\* that are not empty and, when it gives an interval, an integer of at least 1
WellFormed(entry) ==
    /\ entry.object
    /\ {"name", "tool_name"} \subseteq entry.keys
    /\ entry.name # <<>> /\ entry.tool_name # ""
    /\ "interval_minutes" \in entry.keys =>
          entry.interval_minutes.type = "int" /\ entry.interval_minutes.whole >= 1

\* the sources of the well-formed entries of a file, in file order
RECURSIVE WellFormedSources(_, _)
WellFormedSources(entries, default_interval) ==
    IF entries = <<>> THEN <<>>
    ELSE IF WellFormed(Head(entries))
    THEN <<SourceConfig(Head(entries).name, Head(entries).tool_name,
                        EnabledOf(Head(entries)),
                        IntervalOf(Head(entries), default_interval))>>
         \o WellFormedSources(Tail(entries), default_interval)
    ELSE WellFormedSources(Tail(entries), default_interval)

\* C13: for every config file that parses as JSON, load() returns exactly
\* the well-formed entries of "sources", in file order; a malformed entry
\* (name or tool_name missing or empty, interval below 1 or no integer, entry
\* no object) is skipped and never aborts the loading of the others
C13_MalformedEntriesSkipped ==
    (direct.done /\ direct.result.config_file # "" /\ direct.file.kind = "json") =>
        /\ direct.result.raised = "no"
        /\ direct.result.sources =
               WellFormedSources(direct.file.sources, DefaultInterval(direct.file))

\* C19 as stated: load() reads the explicit path when one was given, and
\* fails with file-not-found when it does not exist; otherwise the path the
\* environment variable names, when it names one; otherwise the first
\* existing default location, in list order; otherwise it returns an empty
\* source list
C19_ResolutionOrder ==
    direct.done =>
        IF direct.config_path # ""
        THEN IF direct.config_path \in direct.exists
             THEN direct.result.config_file = direct.config_path
             ELSE direct.result.raised = "FileNotFoundError"
                  /\ direct.result.config_file = ""
        ELSE IF direct.env_path # ""
        THEN direct.result.config_file = direct.env_path
        ELSE IF \E i \in 1..3 : DEFAULT_CONFIG_LOCATIONS[i] \in direct.exists
        THEN \E i \in 1..3 :
                /\ direct.result.config_file = DEFAULT_CONFIG_LOCATIONS[i]
                /\ DEFAULT_CONFIG_LOCATIONS[i] \in direct.exists
                /\ \A k \in 1..(i - 1) : DEFAULT_CONFIG_LOCATIONS[k] \notin direct.exists
        ELSE direct.result = NoLoad

\* C19, amended: the path of the environment variable is read when it
\* exists; when the variable is not set, or names a path that does not
\* exist, load() goes on to the default locations
C19_ResolutionOrderExisting ==
    direct.done =>
        IF direct.config_path # ""
        THEN IF direct.config_path \in direct.exists
             THEN direct.result.config_file = direct.config_path
             ELSE direct.result.raised = "FileNotFoundError"
                  /\ direct.result.config_file = ""
        ELSE IF direct.env_path # "" /\ direct.env_path \in direct.exists
        THEN direct.result.config_file = direct.env_path
        ELSE IF \E i \in 1..3 : DEFAULT_CONFIG_LOCATIONS[i] \in direct.exists
        THEN \E i \in 1..3 :
                /\ direct.result.config_file = DEFAULT_CONFIG_LOCATIONS[i]
                /\ DEFAULT_CONFIG_LOCATIONS[i] \in direct.exists
                /\ \A k \in 1..(i - 1) : DEFAULT_CONFIG_LOCATIONS[k] \notin direct.exists
        ELSE direct.result = NoLoad

\* no explicit path, the variable names a path that does not exist, the
\* second and third default locations exist: the second one is read
C19_Witness ==
    /\ direct.done
    /\ direct.config_path = "" /\ direct.env_path = "env.json"
    /\ direct.exists = {DEFAULT_CONFIG_LOCATIONS[2], DEFAULT_CONFIG_LOCATIONS[3], "given.json"}
    /\ direct.file.kind = "json" /\ Len(direct.file.sources) = 1
    /\ direct.result.config_file = DEFAULT_CONFIG_LOCATIONS[2]
    /\ direct.result.raised = "no" /\ Len(direct.result.sources) = 1

----------------------------------------------------------------------------
(* Properties of the engine                                                *)

\* the sum of the run times the instances of a job still hold
RECURSIVE OwedBy(_)
OwedBy(instances) ==
    IF instances = <<>> THEN 0
    ELSE Len(Head(instances).run_times) + OwedBy(Tail(instances))

\* C14: the engine never executes two instances of one job at the same
\* time, and the due times of a job that arrive while an instance of it
\* runs, or that have piled up, lead to at most one later execution of the
\* job: the executions made and owed never exceed the times the engine
\* found the job due, however many due times each of them covered
C14_OneInstanceOneRun ==
    \A j \in DOMAIN direct.jobs :
        /\ Cardinality({i \in DOMAIN direct.inst[j] : direct.inst[j][i].busy}) <= 1
        /\ Len(direct.inst[j]) <= 1
        /\ OwedBy(direct.inst[j]) <= 1
        /\ direct.runs[j] + direct.missed[j] + OwedBy(direct.inst[j]) <= direct.wakes[j]

\* due times of "x" had piled up, and "x" was due again while its instance
\* ran: the engine found it due twice and it was executed once
C14_Witness ==
    /\ direct.piled /\ direct.overlapped
    /\ now = MaxClock
    /\ direct.wakes[JobId(<<"x">>)] = 2
    /\ direct.runs[JobId(<<"x">>)] = 1
    /\ direct.wakes[JobId(<<"warm_", "x">>)] = 0
    /\ direct.jobs[JobId(<<"x">>)].next_run_time = MaxClock + 1
    /\ direct.inst[JobId(<<"x">>)] = <<[run_times |-> <<>>, busy |-> TRUE]>>

----------------------------------------------------------------------------
(* Properties of the manager's warmer                                      *)

\* the results warm_with_metrics has handed to the caller are in the
\* collector, each once: the runs counted per source are the executions made
EachRecordedOnce ==
    \A n \in SourceNames :
        /\ DictGet(metrics, n).total_runs = hist[n].calls
        /\ DictGet(metrics, n).total_items = hist[n].items

\* C15: every warm execution made through the manager's warmer (initial
\* warm of start(), firing of a scheduled job, of a job added by
\* reload_config() too) records its WarmResult in the collector exactly
\* once and hands the caller that result: the executions that are over are
\* recorded once each, and an execution in progress is never left waiting
\* for a collector lock that nothing will release
C15_WarmRecordedOnce ==
    /\ EachRecordedOnce
    /\ \A t \in Threads :
          task[t].stage = "warming" => ~(pc["ctl"] \in LockPcs /\ lock = "ctl")

----------------------------------------------------------------------------
(* Properties of the WarmResult                                            *)

\* C16: every WarmResult that warm_source or warm_source_sync produces has
\* an error_message (one that is not None) if and only if success is false,
\* and has items_cached = 0 whenever success is false
C16_MessageIffFailed ==
    (probe.done /\ ~probe.raised) =>
        /\ (probe.result.error_message # None) <=> ~probe.result.success
        /\ ~probe.result.success => probe.result.items_cached = 0

\* warm_source_sync could not set up its event loop: a failed result with
\* the wrapper's message and no items
C16_Witness ==
    /\ probe.done /\ probe.via = "warm_source_sync" /\ probe.loop_error
    /\ ~probe.result.success
    /\ probe.result.error_message = <<"Sync wrapper error: ", "loop">>
    /\ probe.result.items_cached = 0
    /\ probe.result.source_name = probe.source.name

\* C17: on a successful invocation warm_source reports items_cached = the
\* number of elements when the capability returned a sized collection (0 for
\* an empty one), and items_cached = 1 when it returned a single value
C17_ItemsCountOfCollections ==
    (probe.done /\ probe.invoked # {} /\ probe.result.success) =>
        probe.result.items_cached =
            (IF probe.outcome.kind \in {"list", "tuple"} THEN probe.outcome.n ELSE 1)

----------------------------------------------------------------------------
(* Properties of get_all_metrics and reset_metrics                         *)

\* the counter f of the snapshot that `sources` holds for name n, 0 if none
CounterOf(sources, n, f) ==
    IF \E p \in sources : p[1] = n /\ p[2].present
    THEN (CHOOSE p \in sources : p[1] = n /\ p[2].present)[2].rec[f]
    ELSE 0

\* C18: get_all_metrics() returns, and its result has one snapshot per
\* source with a record and a summary whose total_runs, total_successful,
\* total_failed and total_items_cached are the sums of the per-source
\* counters, whose total_sources is the number of records, in which
\* total_runs = total_successful + total_failed, and whose
\* overall_success_rate is 0.0 when total_runs is 0
C18_AllMetricsSummary ==
    \A t \in MetricsThreads :
        frame[t].op = "get_all_metrics" =>
            /\ ~(pc[t] \in LockPcs /\ lock = t)
            /\ pc[t] = "gam_ret" =>
                  LET all_sources == frame[t].sources
                      summary == frame[t].summary
                      Total(f) == SumOver(SourceNames,
                                          [n \in SourceNames |-> CounterOf(all_sources, n, f)]) IN
                  /\ summary.total_sources = Cardinality({p[1] : p \in all_sources})
                  /\ summary.total_sources = Cardinality(all_sources)
                  /\ \A p \in all_sources : p[2].present
                  /\ summary.total_runs = Total("total_runs")
                  /\ summary.total_successful = Total("successful_runs")
                  /\ summary.total_failed = Total("failed_runs")
                  /\ summary.total_items_cached = Total("total_items")
                  /\ summary.total_runs = summary.total_successful + summary.total_failed
                  /\ summary.total_runs = 0 => summary.overall_success_rate = <<0, 1>>

\* C20: reset_metrics(name) removes the record of that source only, leaves
\* the record of every other source as it is, and changes nothing when the
\* source has no record; reset_metrics() without a name removes all records;
\* the next result recorded for a source without a record starts from the
\* zeroed counters
C20_ResetRemovesOnlyNamed ==
    [][\A t \in MetricsThreads :
          /\ (pc[t] = "reset_do" /\ pc'[t] = "idle") =>
                IF frame[t].name = None
                THEN metrics' = EmptyDict
                ELSE metrics' = [k \in DOMAIN metrics \ {frame[t].name} |-> metrics[k]]
          /\ (pc[t] = "rec_get" /\ pc'[t] # "rec_get"
              /\ frame[t].result.source_name \notin DOMAIN metrics) =>
                metrics'[frame[t].result.source_name] = DefaultRecord]_vars

----------------------------------------------------------------------------
(* Properties of the manager's life cycle                                  *)

\* C21: within a start() the jobs of all enabled sources are registered
\* first, then the engine is started, then the initial warm pass runs: no
\* initial warm begins before the engine runs, and the running flag stays
\* false until the warm attempt of the last enabled source is over
C21_StartOrder ==
    LET st == task["ctl"]
        enabled == GetEnabledSources(config.sources) IN
    st.kind = "start" =>
        /\ ~isRunning
        /\ DOMAIN taskScheduler.jobs = EnabledJobIds(config.sources)
        /\ st.stage = "engine_start" =>
              taskScheduler.state = "new" /\ st.queue = enabled
        /\ st.stage \in {"warm_pass", "warming"} => taskScheduler.state = "running"
        /\ st.stage \in {"engine_start", "warm_pass", "warming"}

\* the last of two enabled sources is being warmed: the engine runs, the
\* flag is still false
C21_Witness ==
    /\ task["ctl"].kind = "start" /\ task["ctl"].stage = "warming"
    /\ task["ctl"].queue = <<>>
    /\ Len(GetEnabledSources(config.sources)) = 2
    /\ task["ctl"].source = GetEnabledSources(config.sources)[2]
    /\ taskScheduler.state = "running" /\ ~isRunning

\* C22: in a start() that reaches the warm pass every enabled source gets
\* one initial warm attempt, in config order, whatever the other attempts
\* end in: the sources still to warm are always the rest of the enabled
\* ones, those before them have been warmed and recorded, and when start()
\* returns with running = true every enabled source has total_runs >= 1
C22_EverySourceWarmedOnce ==
    LET st == task["ctl"]
        enabled == GetEnabledSources(config.sources)
        Warmed(k) == \A i \in 1..k : DictGet(metrics, enabled[i].name).total_runs >= 1 IN
    /\ (st.kind = "start" /\ st.stage = "warm_pass") =>
          \E k \in 0..Len(enabled) :
             st.queue = SubSeq(enabled, k + 1, Len(enabled)) /\ Warmed(k)
    /\ (st.kind = "start" /\ st.stage = "warming") =>
          \E k \in 1..Len(enabled) :
             /\ st.queue = SubSeq(enabled, k + 1, Len(enabled))
             /\ st.source = enabled[k]
             /\ Warmed(k - 1)
    /\ (Back("start", FALSE) /\ isRunning) => Warmed(Len(enabled))

\* start() is back with running = true after two initial warms, the first
\* of which failed
C22_Witness ==
    LET enabled == GetEnabledSources(config.sources) IN
    /\ Back("start", FALSE) /\ isRunning
    /\ Len(enabled) = 2
    /\ DictGet(metrics, enabled[1].name).failed_runs = 1
    /\ DictGet(metrics, enabled[2].name).successful_runs = 1

\* C23: stop() on a running manager returns only after every job execution
\* in flight has finished, and once it has returned no scheduled warm
\* execution begins until a later start(): while a stop() that ended without
\* an error is the last call made, no pool thread is in a job
C23_StopWaitsForJobs ==
    (Back("stop", TRUE) /\ ~last.failed) => \A w \in Workers : task[w].kind # "job"

\* C24: while the manager stays running, the job of an enabled source keeps
\* firing and completing, whatever get_status() and the metrics queries of
\* the control thread do in between: an execution of a job that is in
\* flight on the pool is never left behind a collector lock that its holder
\* waits for itself, a state in which no execution can record its result
\* and no source's total_runs grows any more.
C24_NoSourceStarved ==
    \A w \in Workers :
        (/\ isRunning
         /\ taskScheduler.state = "running"
         /\ task[w].kind = "job"
         /\ ~task[w].orphan
         /\ task[w].job \in EnabledJobIds(config.sources)) =>
            ~(lock = "ctl" /\ pc["ctl"] \in LockPcs)

----------------------------------------------------------------------------
(* Properties of warm_source_sync's event loops                            *)

\* the threads inside a warm_source_sync call that have their loop
InSyncCall == {t \in SyncThreads : direct.loop[t] # NoLoop /\ direct.at[t] # "idle"}

\* C25: each warm_source_sync call creates its own event loop, uses it for
\* that single call only (one run_until_complete), and has closed it by the
\* time it returns, with a result or with the failed result of a failure
\* path; no two calls in progress at the same time use the same loop.
C25_OwnLoopPerCall ==
    /\ \A t \in InSyncCall :
          /\ direct.loops[direct.loop[t]].thread = t
          /\ direct.loops[direct.loop[t]].call = direct.calls[t]
    /\ \A t, u \in InSyncCall : t # u => direct.loop[t] # direct.loop[u]
    /\ \A i \in DOMAIN direct.loops :
          LET l == direct.loops[i] IN
          /\ l.runs <= 1
          /\ l.closed \/ (l.call = direct.calls[l.thread] /\
                          direct.at[l.thread] \notin {"idle", "return", "except"})
    /\ \A t \in SyncThreads :
          direct.at[t] \in {"running"} => ~direct.loops[direct.loop[t]].closed

\* two calls run at the same time, each on its own loop, after an earlier
\* call of one of the threads has ended and left its loop closed
C25_Witness ==
    /\ direct.kind = "loops"
    /\ Len(direct.loops) = 3
    /\ direct.at["w1"] = "running" /\ direct.at["w2"] = "running"
    /\ direct.calls["w1"] = 2 /\ direct.calls["w2"] = 1
    /\ direct.loops[1] = [thread |-> "w1", call |-> 1, closed |-> TRUE, runs |-> 1]
    /\ direct.loop["w1"] # direct.loop["w2"]
    /\ direct.current["w1"] = direct.loop["w1"]

----------------------------------------------------------------------------
(* Properties of the warm executions of one source                         *)

\* C26: no two warm executions of the same source overlap in time, whether
\* they are made by the initial warm pass of start() on the control thread
\* or by a firing of the source's job on a pool thread: two threads that are
\* warming at the same moment are warming sources of different names.
C26_NoOverlapPerSource ==
    \A t, u \in Threads :
        (t # u /\ task[t].stage = "warming" /\ task[u].stage = "warming"
              /\ ~task[t].orphan /\ ~task[u].orphan) =>
            task[t].source.name # task[u].source.name

----------------------------------------------------------------------------
(* Properties of reload_config                                             *)

\* the jobs whose source is enabled in the config in force, enabled in the
\* config the reload brings, and the same in both
UnchangedJobs ==
    {j \in DOMAIN taskScheduler.jobs \cap DOMAIN taskScheduler'.jobs :
        /\ j \in EnabledJobIds(config.sources) \cap EnabledJobIds(config'.sources)
        /\ taskScheduler'.jobs[j].source = taskScheduler.jobs[j].source}

\* C27: a reload_config() that succeeds on a running manager does not
\* postpone the next firing of a job whose source is enabled and unchanged
\* in the new config: the job's next fire time after the reload is no later
\* than it was before the reload.
C27_ReloadKeepsFireTimes ==
    [][(isRunning /\ ReloadCall /\ ~last'.failed) =>
          \A j \in UnchangedJobs :
              taskScheduler'.jobs[j].next_run_time <= taskScheduler.jobs[j].next_run_time]_vars

\* the scheduled jobs: their ids, each with the source it warms
Scheduled(jobs) == [j \in DOMAIN jobs |-> jobs[j].source]

\* C28: reload_config() is all-or-nothing: when it fails on a running
\* manager that has enabled sources, at any step (the
\* config file is missing or not valid JSON, the jobs cannot be listed, an
\* engine call raises part-way), the scheduled jobs, the current config and
\* the running flag are what they were before the call.
C28_FailedReloadChangesNothing ==
    [][(/\ isRunning /\ GetEnabledSources(config.sources) # <<>>
        /\ ReloadCall /\ last'.failed) =>
          /\ Scheduled(taskScheduler'.jobs) = Scheduled(taskScheduler.jobs)
          /\ config' = config
          /\ isRunning' = isRunning]_vars

----------------------------------------------------------------------------
(* Properties of the engine between manager calls                          *)

\* C29: between manager calls the periodic engine is running only if the
\* manager reports running = true: after every start() that ends with
\* running = false, whatever the step at which it failed, and after every
\* stop(), no engine is left running in the background and no job is due to
\* fire.
C29_EngineRunsOnlyIfRunning ==
    CtlIdle =>
        /\ taskScheduler.state = "running" => isRunning
        /\ ~isRunning => \A j \in DOMAIN taskScheduler.jobs : ~Due(j)

\* a stop() has stopped the engine and a later start() has failed with its
\* jobs registered: the engine of the new scheduler is not running
C29_Witness ==
    /\ Back("start", FALSE) /\ last.failed
    /\ ~isRunning
    /\ calls = 3
    /\ taskScheduler.set /\ taskScheduler.state # "running"
    /\ DOMAIN taskScheduler.jobs # {}
    /\ now = 1

----------------------------------------------------------------------------
(* Properties of the metrics across restarts                               *)

TotalRuns(m, n) == DictGet(m, n).total_runs

\* C30: metrics survive restarts and are never counted twice: a step that
\* completes a warm execution (the count of executions made grows), before
\* or after a restart, adds exactly 1 to the total_runs of its source and
\* leaves the records of the other sources alone, and no other step, of
\* start(), stop(), reload_config() or get_status(), changes what the
\* manager's collector holds.
C30_MetricsSurviveRestarts ==
    [][IF hist' # hist
       THEN \E n \in SourceNames :
               /\ hist'[n].calls = hist[n].calls + 1
               /\ TotalRuns(metrics', n) = TotalRuns(metrics, n) + 1
               /\ \A m \in SourceNames \ {n} : DictGet(metrics', m) = DictGet(metrics, m)
       ELSE metrics' = metrics]_vars

\* the manager has been started, stopped and started again with an enabled
\* source, which the restart has warmed: a source warmed before the restart
\* and after it has a total_runs of 2
C30_Witness ==
    /\ Back("start", FALSE) /\ ~last.failed
    /\ isRunning
    /\ calls = 3
    /\ GetEnabledSources(config.sources) # <<>>
    /\ \E n \in SourceNames : TotalRuns(metrics, n) = 2 /\ hist[n].calls = 2

============================================================================
